---- MODULE Spec2Model ----
(***************************************************************************)
(* The adoption service and the pet service of the petstore: the gRPC      *)
(* handlers, the usecases, the MongoDB repositories and the Redis caches,  *)
(* run by concurrent clients.  Every call a usecase makes to a             *)
(* collaborator (repository, cache, publisher) is one atomic step, and     *)
(* every such call may fail as the driver under it can fail.               *)
(* The notification service follows: the NATS consumer, its shutdown, and  *)
(* the handlers that turn an event into one email.                         *)
(***************************************************************************)
EXTENDS Integers, Sequences, FiniteSets, TLC

VARIABLES
    svc,        \* the service a behaviour follows: the two share no state
    appStore,   \* the adoption_applications collection: id -> <<>> or <<BSON document>>
    appCache,   \* Redis of the adoption service: id -> <<>> or <<JSON value>>
    petStore,   \* the pets collection: id -> <<>> or <<BSON document>>
    petCache,   \* Redis of the pet service: id -> <<>> or <<JSON value>>
    now,        \* the wall clock at its last reading by time.Now(), in half milliseconds
    ops,        \* the number of calls made so far
    pc,         \* where each client's call stands
    req,        \* the request of each client's call
    loc,        \* the local variables of each client's call
    calls,      \* the collaborator calls each client's call has made, in order
    resp,       \* what each client's last call returned
    storeVer,     \* history: id -> the number of writes the store has taken for the id
    cacheVer,   \* history: id -> the number of the write whose value the cache holds, or 0
    ackedVer,   \* history: id -> the number of the latest write whose call returned success
    warm,       \* history: id -> <<>> or <<the entity the last cold get of the id returned,
                \* with the number of the write it comes from>>; <<>> again after a write
    seq,        \* history: <<>> or <<the update that has just returned, followed by nothing but a get>>
    subs,       \* NATSConsumer.subscriptions: subject -> whether the subscription is live
    pending,    \* subject -> the messages the client holds for the subscription, in order
    msgs,       \* history: every message received, with what was done for it
    hpc,        \* subject -> where the subscription's callback stands
    hmsg,       \* subject -> the number of the message the callback is run for, or 0
    hloc,       \* subject -> the local variables of the callback and of the handler it calls
    shutdownWg, \* NATSConsumer.shutdownWg: the counter of the WaitGroup
    stopChan,   \* NATSConsumer.stopChan: whether the channel is closed
    conn,       \* NATSConsumer.nc: "open", "draining" or "closed"
    cpc,        \* where main stands: "serving", or a step of NATSConsumer.Close
    waitEnd     \* how the wait of Close ended: "", "done" or "timeout"

vars == <<svc, appStore, appCache, petStore, petCache, now, ops, pc, req, loc, calls, resp,
          storeVer, cacheVer, ackedVer, warm, seq,
          subs, pending, msgs, hpc, hmsg, hloc, shutdownWg, stopChan, conn, cpc, waitEnd>>

\* the state of the notification service
NotifVars == <<subs, pending, msgs, hpc, hmsg, hloc, shutdownWg, stopChan, conn, cpc, waitEnd>>

-----------------------------------------------------------------------------
(* Bounds *)

MaxApps == 1
MaxPets == 1
MaxOps == 4
MaxOverlapOps == 3
MaxClock == 4
MaxMsgs == 2

\* the goroutines that serve calls; a call is served by the first that is free
Procs == {1, 2}

AppIdOf(i) == "a" \o ToString(i)
AppIds == {AppIdOf(i) : i \in 1..MaxApps}

PetIdOf(i) == "p" \o ToString(i)
PetIds == {PetIdOf(i) : i \in 1..MaxPets}
Ids == AppIds \cup PetIds

\* what requests carry
UserIDs == {"", "user123"}
AppliedPetIDs == {"", "pet456"}
Notes == {"", "looks good"}
PetNames == {"", "Rex"}
NewPetNames == {<<>>, <<"">>, <<"Rex">>, <<"Max">>}
PetSpecies == {"", "Dog"}
PetAges == {-1, 3}
AdopterUserIDs == {<<>>, <<"">>, <<"user123">>}

-----------------------------------------------------------------------------
(* domain.ApplicationStatus *)

StatusAppUnspecified == "UNSPECIFIED"
StatusAppPendingReview == "PENDING_REVIEW"
StatusAppApproved == "APPROVED"
StatusAppRejected == "REJECTED"
StatusAppCancelledByUser == "CANCELLED_BY_USER"

FourStatuses ==
    {StatusAppPendingReview, StatusAppApproved, StatusAppRejected, StatusAppCancelledByUser}

\* the numbers of the proto enum, and one number the enum does not define
PbStatuses == {0, 1, 2, 3, 4, 5}

IsValidApplicationStatus(status) ==
    status \in {StatusAppPendingReview, StatusAppApproved, StatusAppRejected,
                StatusAppCancelledByUser, StatusAppUnspecified}

pbApplicationStatusToDomain(pbStatus) ==
    CASE pbStatus = 1 -> StatusAppPendingReview
      [] pbStatus = 2 -> StatusAppApproved
      [] pbStatus = 3 -> StatusAppRejected
      [] pbStatus = 5 -> StatusAppCancelledByUser
      [] OTHER -> StatusAppUnspecified

-----------------------------------------------------------------------------
(* domain.AdoptionApplication and its two encodings *)

NewApplication(userID, petID, notes) ==
    [ID |-> "", UserID |-> userID, PetID |-> petID, Status |-> "",
     ApplicationNotes |-> notes, ReviewNotes |-> "", CreatedAt |-> 0, UpdatedAt |-> 0]

\* PrepareForCreate as it would be without the default of the status
PrepareForCreateNoDefault(app, t) == [app EXCEPT !.CreatedAt = t, !.UpdatedAt = t]

PrepareForCreate(app, t) ==
    [app EXCEPT !.CreatedAt = t,
                !.UpdatedAt = t,
                !.Status = IF app.Status = "" \/ app.Status = StatusAppUnspecified
                           THEN StatusAppPendingReview ELSE app.Status]

\* a field tagged omitempty is left out of the encoding when it is empty
Omitted == "<omitted>"
OmitEmpty(s) == IF s = "" THEN Omitted ELSE s
OrZero(v) == IF v = Omitted THEN "" ELSE v

\* a BSON datetime counts whole milliseconds
BsonDateTime(t) == (t \div 2) * 2

BsonMarshal(app) ==
    [_id |-> OmitEmpty(app.ID),
     user_id |-> app.UserID,
     pet_id |-> app.PetID,
     status |-> app.Status,
     application_notes |-> OmitEmpty(app.ApplicationNotes),
     review_notes |-> OmitEmpty(app.ReviewNotes),
     created_at |-> BsonDateTime(app.CreatedAt),
     updated_at |-> BsonDateTime(app.UpdatedAt)]

BsonUnmarshal(doc) ==
    [ID |-> OrZero(doc._id),
     UserID |-> doc.user_id,
     PetID |-> doc.pet_id,
     Status |-> doc.status,
     ApplicationNotes |-> OrZero(doc.application_notes),
     ReviewNotes |-> OrZero(doc.review_notes),
     CreatedAt |-> doc.created_at,
     UpdatedAt |-> doc.updated_at]

\* encoding/json writes a time.Time as RFC 3339 with nanoseconds: nothing is cut
JsonMarshal(app) ==
    [id |-> OmitEmpty(app.ID),
     user_id |-> app.UserID,
     pet_id |-> app.PetID,
     status |-> app.Status,
     application_notes |-> OmitEmpty(app.ApplicationNotes),
     review_notes |-> OmitEmpty(app.ReviewNotes),
     created_at |-> app.CreatedAt,
     updated_at |-> app.UpdatedAt]

JsonUnmarshal(val) ==
    [ID |-> OrZero(val.id),
     UserID |-> val.user_id,
     PetID |-> val.pet_id,
     Status |-> val.status,
     ApplicationNotes |-> OrZero(val.application_notes),
     ReviewNotes |-> OrZero(val.review_notes),
     CreatedAt |-> val.created_at,
     UpdatedAt |-> val.updated_at]

-----------------------------------------------------------------------------
(* domain.AdoptionStatus and domain.Pet with its two encodings.  Of the pet's
   fields the model keeps the ones below; Breed, Description, ListedByUserID and
   ImageURLs are carried as Name is. *)

StatusUnspecified == "UNSPECIFIED"
StatusAvailable == "AVAILABLE"
StatusPendingAdoption == "PENDING_ADOPTION"
StatusAdopted == "ADOPTED"

\* the statuses a request can name, and one string that is no status
AdoptionStatuses ==
    {StatusUnspecified, StatusAvailable, StatusPendingAdoption, StatusAdopted, "SOLD"}

IsValidAdoptionStatus(status) ==
    status \in {StatusAvailable, StatusPendingAdoption, StatusAdopted, StatusUnspecified}

NewPet(name, species, age) ==
    [ID |-> "", Name |-> name, Species |-> species, Age |-> age, AdoptionStatus |-> "",
     AdoptedByUserID |-> "", CreatedAt |-> 0, UpdatedAt |-> 0]

PetPrepareForCreate(pet, t) ==
    [pet EXCEPT !.CreatedAt = t,
                !.UpdatedAt = t,
                !.AdoptionStatus =
                    IF pet.AdoptionStatus = "" \/ pet.AdoptionStatus = StatusUnspecified
                    THEN StatusAvailable ELSE pet.AdoptionStatus]

PetPrepareForUpdate(pet, t) == [pet EXCEPT !.UpdatedAt = t]

PetBsonMarshal(pet) ==
    [_id |-> OmitEmpty(pet.ID),
     name |-> pet.Name,
     species |-> pet.Species,
     age |-> pet.Age,
     adoption_status |-> pet.AdoptionStatus,
     adopted_by_user_id |-> OmitEmpty(pet.AdoptedByUserID),
     created_at |-> BsonDateTime(pet.CreatedAt),
     updated_at |-> BsonDateTime(pet.UpdatedAt)]

PetBsonUnmarshal(doc) ==
    [ID |-> OrZero(doc._id),
     Name |-> doc.name,
     Species |-> doc.species,
     Age |-> doc.age,
     AdoptionStatus |-> doc.adoption_status,
     AdoptedByUserID |-> OrZero(doc.adopted_by_user_id),
     CreatedAt |-> doc.created_at,
     UpdatedAt |-> doc.updated_at]

PetJsonMarshal(pet) ==
    [id |-> OmitEmpty(pet.ID),
     name |-> pet.Name,
     species |-> pet.Species,
     age |-> pet.Age,
     adoption_status |-> pet.AdoptionStatus,
     adopted_by_user_id |-> OmitEmpty(pet.AdoptedByUserID),
     created_at |-> pet.CreatedAt,
     updated_at |-> pet.UpdatedAt]

PetJsonUnmarshal(val) ==
    [ID |-> OrZero(val.id),
     Name |-> val.name,
     Species |-> val.species,
     Age |-> val.age,
     AdoptionStatus |-> val.adoption_status,
     AdoptedByUserID |-> OrZero(val.adopted_by_user_id),
     CreatedAt |-> val.created_at,
     UpdatedAt |-> val.updated_at]

-----------------------------------------------------------------------------
(* Errors.  An error is the chain of the error values wrapped into it, outermost
   first; an error value is its message and the place that allocated it, which
   stands for the pointer errors.New returns. *)

NoError == <<>>
ErrorsNew(msg, site) == <<[msg |-> msg, site |-> site]>>
Wrap(msg, err) == <<[msg |-> msg, site |-> "fmt.Errorf"]>> \o err

\* errors.Is: some error of the chain is the target itself
ErrorsIs(err, target) == \E i \in 1..Len(err) : err[i] = target[1]

RECURSIVE ErrorString(_)
ErrorString(err) ==
    IF Len(err) = 1 THEN err[1].msg ELSE err[1].msg \o ": " \o ErrorString(Tail(err))

DriverError == ErrorsNew("connection error", "driver")

ErrAppNotFound == ErrorsNew("adoption application not found", "mongodb_repository")
ErrAppNotFoundForUpdate ==
    ErrorsNew("adoption application not found for status update", "mongodb_repository")

ErrPetNotFound == ErrorsNew("pet not found", "mongodb_repository")

-----------------------------------------------------------------------------
(* A client's call *)

NoReq == [op |-> "", layer |-> "", id |-> "", user |-> "", pet |-> "", notes |-> "",
          status |-> "", pb |-> -1,
          name |-> <<>>, species |-> "", age |-> 0, adopter |-> <<>>]
\* the locals of a call: the entity it holds and, as history, the document its store
\* write replaced, whether that write has committed, the number of the write the
\* entity comes from and, for a get, what ackedVer and warm held for its id when
\* it began
NoLoc == [app |-> <<>>, pre |-> <<>>, committed |-> FALSE, ver |-> 0,
          acked |-> 0, warm0 |-> <<>>]
GetOps == {"GetAdoptionApplicationByID", "GetPetByID"}
NoResp == [op |-> "", layer |-> "", code |-> "", app |-> <<>>, err |-> NoError]

Call(fn, id, res) == [fn |-> fn, id |-> id, res |-> res]

\* a reply is on its way to its caller: handing it over touches nothing shared, so
\* it is taken as the step that follows the end of the call
Replying == \E q \in Procs : pc[q] = "return"

Idle(p, s) ==
    /\ pc[p] = "idle"
    /\ svc = s
    /\ ~Replying
    /\ ops < MaxOps
    /\ ops >= MaxOverlapOps => \A q \in Procs : pc[q] = "idle"

\* client p is at label l of its call
At(p, l) == pc[p] = l /\ ~Replying

Max(a, b) == IF a > b THEN a ELSE b

\* AdoptionHandler.UpdateAdoptionApplicationStatus, lines 161-177: each target of
\* errors.Is is a value errors.New has just allocated in the handler
HandlerUpdateStatusCode(err) ==
    IF err = NoError THEN "OK"
    ELSE IF \/ ErrorsIs(err, ErrorsNew("adoption application not found for status update", "grpc_handler"))
            \/ ErrorsIs(err, ErrorsNew("adoption application not found", "grpc_handler"))
         THEN "NotFound"
    ELSE IF ErrorsIs(err, ErrorsNew("invalid new application status", "grpc_handler"))
         THEN "InvalidArgument"
    ELSE IF ErrorsIs(err, ErrorsNew("adopter user ID is required when setting status to ADOPTED", "grpc_handler"))
         THEN "InvalidArgument"
    ELSE "Internal"

StatusCode(r, err) ==
    IF r.layer # "grpc" THEN ""
    ELSE IF r.op = "UpdateAdoptionApplicationStatus" THEN HandlerUpdateStatusCode(err)
    ELSE ""

\* the reply of a call: what the usecase returned and, for a gRPC caller, the status code
Reply(r, app, err) ==
    [op |-> r.op, layer |-> r.layer, code |-> StatusCode(r, err),
     app |-> IF err = NoError THEN app ELSE <<>>, err |-> err]

\* the handler's reply to a request it rejects before it calls the usecase
Rejected(r, code, msg) ==
    [op |-> r.op, layer |-> r.layer, code |-> code, app |-> <<>>,
     err |-> ErrorsNew(msg, "grpc_handler")]

\* a call begins: request r, first step at label l
Begin(p, r, l) ==
    /\ ops' = ops + 1
    /\ pc' = [pc EXCEPT ![p] = l]
    /\ req' = [req EXCEPT ![p] = r]
    /\ loc' = [loc EXCEPT ![p] = IF r.op \in GetOps
                                 THEN [NoLoc EXCEPT !.acked = ackedVer[r.id],
                                                    !.warm0 = warm[r.id]]
                                 ELSE NoLoc]
    /\ UNCHANGED <<calls, resp>>

\* a call ends before its first step
BeginEnd(p, r, reply) ==
    /\ ops' = ops + 1
    /\ pc' = [pc EXCEPT ![p] = "return"]
    /\ req' = [req EXCEPT ![p] = r]
    /\ resp' = [resp EXCEPT ![p] = reply]
    /\ UNCHANGED <<loc, calls>>

\* a call ends after the collaborator calls cs: the usecase returns (app, err)
End(p, cs, app, err) ==
    /\ pc' = [pc EXCEPT ![p] = "return"]
    /\ calls' = [calls EXCEPT ![p] = calls[p] \o cs]
    /\ resp' = [resp EXCEPT ![p] = Reply(req[p], app, err)]
    /\ UNCHANGED <<ops, req>>

\* a call goes on to label l after the collaborator call c, its locals now l2
Step(p, c, l, l2) ==
    /\ pc' = [pc EXCEPT ![p] = l]
    /\ calls' = [calls EXCEPT ![p] = Append(calls[p], c)]
    /\ loc' = [loc EXCEPT ![p] = l2]
    /\ UNCHANGED <<ops, req, resp>>

\* time.Now(): the wall clock has moved on by some amount, possibly none, since it
\* was last read
TimeNow(t) == t \in now..MaxClock /\ now' = t

\* history kept over a step of client p that is part of a get
SeqOfGet(p) == seq' = IF seq # <<>> /\ seq[1].getter = p THEN seq ELSE <<>>

-----------------------------------------------------------------------------
(* The adoption service: adoptionUsecase over mongoAdoptionRepository,
   redisAdoptionCache and natsAdoptionPublisher *)

AppVars == <<appStore, appCache, storeVer, cacheVer>>
PetVars == <<svc, petStore, petCache, NotifVars>>

\* the ids no application has been stored under; primitive.NewObjectID gives one of them
FreeAppIds == {id \in AppIds : storeVer[id] = 0}
NewObjectID == AppIdOf(CHOOSE i \in 1..MaxApps :
                   /\ AppIdOf(i) \in FreeAppIds
                   /\ \A j \in 1..(i - 1) : AppIdOf(j) \notin FreeAppIds)
Inserting == {q \in Procs : pc[q] = "create.insert"}

\* CreateRequestInvalid as it would be if only the user id were required
CreateRequestInvalidUserOnly(userID, petID) == userID = ""

\* the check CreateAdoptionApplication makes of its request
CreateRequestInvalid(userID, petID) == userID = "" \/ petID = ""

\* adoptionUsecase.CreateAdoptionApplication up to its call of the repository
CreateAdoptionApplication(p) ==
    /\ Idle(p, "adoption")
    /\ \E user \in UserIDs, pet \in AppliedPetIDs, notes \in Notes :
          LET r == [NoReq EXCEPT !.op = "CreateAdoptionApplication", !.layer = "usecase",
                                 !.user = user, !.pet = pet, !.notes = notes]
          IN  IF CreateRequestInvalid(user, pet)
              THEN BeginEnd(p, r, Reply(r, <<>>,
                       ErrorsNew("user ID and pet ID are required", "usecase")))
              ELSE /\ Begin(p, r, "create.insert")
                   /\ Cardinality(FreeAppIds) > Cardinality(Inserting)
    /\ seq' = <<>>
    /\ UNCHANGED <<PetVars, AppVars, now, ackedVer, warm>>

\* what the usecase returns when the repository's create failed
CreateRepoFailed(err) == Wrap("could not create adoption application", err)

\* mongoAdoptionRepository.CreateAdoptionApplication
RepoCreateAdoptionApplication(p) ==
    /\ At(p, "create.insert")
    /\ \E t \in now..MaxClock :
          LET id == NewObjectID
              app == PrepareForCreate(
                         [NewApplication(req[p].user, req[p].pet, req[p].notes) EXCEPT !.ID = id],
                         t)
              c(res) == Call("repo.CreateAdoptionApplication", id, res)
          IN  /\ TimeNow(t)
              /\ \/ /\ appStore' = [appStore EXCEPT ![id] = <<BsonMarshal(app)>>]
                    /\ storeVer' = [storeVer EXCEPT ![id] = @ + 1]
                    /\ Step(p, c("ok"), "create.publish",
                            [loc[p] EXCEPT !.app = <<app>>, !.committed = TRUE,
                                           !.ver = storeVer[id] + 1])
                 \/ /\ End(p, <<c("err")>>, <<>>, CreateRepoFailed(DriverError))
                    /\ loc' = loc
                    /\ UNCHANGED <<appStore, storeVer>>
    /\ seq' = <<>>
    /\ UNCHANGED <<PetVars, appCache, cacheVer, ackedVer, warm>>

\* the NATS subject each function of natsAdoptionPublisher publishes on
PublisherSubject(fn) ==
    IF fn = "publisher.PublishAdoptionApplicationCreated"
    THEN "adoption.application.created"
    ELSE "adoption.application.status.updated"

\* the calls of the publisher CreateAdoptionApplication makes for the created application
CreatePublishCalls(app, res) ==
    <<Call("publisher.PublishAdoptionApplicationCreated", app.ID, res)>>

\* CreateResult as it would be if a publish failure failed the call
CreateResultFailingOnPublish(app, pubErr) ==
    [app |-> IF pubErr = NoError THEN <<app>> ELSE <<>>, err |-> pubErr]

\* what CreateAdoptionApplication returns after the publisher returned pubErr
CreateResult(app, pubErr) == [app |-> <<app>>, err |-> NoError]

\* natsAdoptionPublisher.PublishAdoptionApplicationCreated, and the usecase's return
PublishAdoptionApplicationCreated(p) ==
    /\ At(p, "create.publish")
    /\ \E res \in {"ok", "err"} :
          LET app == loc[p].app[1]
              out == CreateResult(app, IF res = "ok" THEN NoError ELSE DriverError)
          IN  End(p, CreatePublishCalls(app, res), out.app, out.err)
    /\ loc' = loc
    /\ seq' = <<>>
    /\ UNCHANGED <<PetVars, AppVars, now, ackedVer, warm>>

-----------------------------------------------------------------------------

\* adoptionUsecase.GetAdoptionApplicationByID up to its call of the cache
GetAdoptionApplicationByID(p) ==
    /\ Idle(p, "adoption")
    /\ \E id \in AppIds \cup {""} :
          LET r == [NoReq EXCEPT !.op = "GetAdoptionApplicationByID", !.layer = "usecase",
                                 !.id = id]
          IN  /\ IF id = ""
                 THEN BeginEnd(p, r, Reply(r, <<>>,
                          ErrorsNew("application ID is required", "usecase")))
                 ELSE Begin(p, r, "get.cache")
              /\ seq' = IF seq # <<>> /\ seq[1].id = id /\ seq[1].getter = 0 /\ id # ""
                        THEN <<[seq[1] EXCEPT !.getter = p]>> ELSE <<>>
    /\ UNCHANGED <<PetVars, AppVars, now, ackedVer, warm>>

\* GetAfterCache as it would be if the store were read on a hit too
GetAfterCacheAlwaysRepo(res) == "get.repo"

\* where GetAdoptionApplicationByID goes after the cache answered: a hit returns
GetAfterCache(res) == IF res = "hit" THEN "return" ELSE "get.repo"

\* redisAdoptionCache.GetAdoptionApplication
CacheGetAdoptionApplication(p) ==
    /\ At(p, "get.cache")
    /\ LET id == req[p].id
       IN  \E res \in {"answer", "err"} :
              LET out == IF res = "err" THEN "err"
                         ELSE IF appCache[id] = <<>> THEN "miss" ELSE "hit"
                  c == Call("cache.GetAdoptionApplication", id, out)
              IN  IF out = "hit"
                  THEN IF GetAfterCache(out) = "return"
                       THEN /\ End(p, <<c>>, <<JsonUnmarshal(appCache[id][1])>>, NoError)
                            /\ loc' = [loc EXCEPT ![p].ver = cacheVer[id]]
                       ELSE Step(p, c, GetAfterCache(out), loc[p])
                  ELSE Step(p, c, "get.repo", loc[p])
    /\ SeqOfGet(p)
    /\ UNCHANGED <<PetVars, AppVars, now, ackedVer, warm>>

\* EntryAfterNotFound as it would be if the usecase cached the absence of an application
EntryAfterNotFoundNegative(cache, id) ==
    <<JsonMarshal([NewApplication("", "", "") EXCEPT !.ID = id])>>

\* the cache entry of an id after the repository answered not-found for it: the
\* usecase returns the error at once and writes nothing
EntryAfterNotFound(cache, id) == cache[id]

\* mongoAdoptionRepository.GetAdoptionApplicationByID, called by the usecase's get
RepoGetAdoptionApplicationByID(p) ==
    /\ At(p, "get.repo")
    /\ LET id == req[p].id
           c(res) == Call("repo.GetAdoptionApplicationByID", id, res)
       IN  \/ /\ appStore[id] # <<>>
              /\ Step(p, c("ok"), "get.set",
                      [loc[p] EXCEPT !.app = <<BsonUnmarshal(appStore[id][1])>>,
                                     !.ver = storeVer[id]])
              /\ appCache' = appCache
           \/ /\ appStore[id] = <<>>
              /\ End(p, <<c("notfound")>>, <<>>, ErrAppNotFound)
              /\ loc' = loc
              /\ appCache' = [appCache EXCEPT ![id] = EntryAfterNotFound(appCache, id)]
           \/ /\ End(p, <<c("err")>>, <<>>, DriverError)
              /\ loc' = loc
              /\ appCache' = appCache
    /\ SeqOfGet(p)
    /\ UNCHANGED <<PetVars, appStore, storeVer, cacheVer, now, ackedVer, warm>>

\* GetResult as it would be if a failed cache write failed the get
GetResultFailingOnCacheSet(app, cacheErr) ==
    [app |-> IF cacheErr = NoError THEN <<app>> ELSE <<>>, err |-> cacheErr]

\* what GetAdoptionApplicationByID returns after the cache write returned cacheErr
GetResult(app, cacheErr) == [app |-> <<app>>, err |-> NoError]

\* redisAdoptionCache.SetAdoptionApplication, and the usecase's return
CacheSetAdoptionApplication(p) ==
    /\ At(p, "get.set")
    /\ LET id == req[p].id
           app == loc[p].app[1]
           c(res) == Call("cache.SetAdoptionApplication", id, res)
           out(cacheErr) == GetResult(app, cacheErr)
       IN  /\ \/ /\ appCache' = [appCache EXCEPT ![id] = <<JsonMarshal(app)>>]
                 /\ cacheVer' = [cacheVer EXCEPT ![id] = loc[p].ver]
                 /\ End(p, <<c("ok")>>, out(NoError).app, out(NoError).err)
              \/ /\ UNCHANGED <<appCache, cacheVer>>
                 /\ End(p, <<c("err")>>, out(DriverError).app, out(DriverError).err)
           /\ warm' = [warm EXCEPT ![id] = <<[app |-> app, ver |-> loc[p].ver]>>]
    /\ loc' = loc
    /\ SeqOfGet(p)
    /\ UNCHANGED <<PetVars, appStore, storeVer, now, ackedVer>>

-----------------------------------------------------------------------------

\* adoptionUsecase.UpdateAdoptionApplicationStatus up to its call of the repository
UcUpdateAdoptionApplicationStatus(p, r) ==
    IF r.id = ""
    THEN BeginEnd(p, r, Reply(r, <<>>,
             ErrorsNew("application ID is required for status update", "usecase")))
    ELSE IF ~IsValidApplicationStatus(r.status)
    THEN BeginEnd(p, r, Reply(r, <<>>, ErrorsNew("invalid new application status", "usecase")))
    ELSE Begin(p, r, "update.write")

\* AdoptionHandler.UpdateAdoptionApplicationStatus up to its call of the usecase
HandlerUpdateAdoptionApplicationStatus(p) ==
    /\ Idle(p, "adoption")
    /\ \E id \in AppIds \cup {""}, pbStatus \in PbStatuses, notes \in Notes :
          LET domainStatus == pbApplicationStatusToDomain(pbStatus)
              r == [NoReq EXCEPT !.op = "UpdateAdoptionApplicationStatus", !.layer = "grpc",
                                 !.id = id, !.status = domainStatus, !.pb = pbStatus,
                                 !.notes = notes]
          IN  IF id = ""
              THEN BeginEnd(p, r, Rejected(r, "InvalidArgument", "Application ID is required"))
              ELSE IF domainStatus = StatusAppUnspecified /\ pbStatus # 0
              THEN BeginEnd(p, r, Rejected(r, "InvalidArgument",
                                "Invalid new application status provided in request"))
              ELSE UcUpdateAdoptionApplicationStatus(p, r)
    /\ seq' = <<>>
    /\ UNCHANGED <<PetVars, AppVars, now, ackedVer, warm>>

\* what the usecase returns when the repository's update failed
UpdateRepoFailed(err) == Wrap("could not update application status", err)

\* the document UpdateOne leaves: $set of status, review_notes and updated_at
SetStatus(doc, newStatus, reviewNotes, t) ==
    [doc EXCEPT !.status = newStatus,
                !.review_notes = reviewNotes,
                !.updated_at = BsonDateTime(t)]

\* CacheAfterFailedUpdate as it would be if the entry were deleted before the
\* repository's error is looked at
CacheAfterFailedUpdateDropped(cache, id) == <<>>

\* the cache entry after the repository's update failed: the usecase returns at once
CacheAfterFailedUpdate(cache, id) == cache[id]

\* UpdateFilter as it would be if only an application under review could be updated
UpdateFilterPendingOnly(doc, id) == doc._id = id /\ doc.status = StatusAppPendingReview

\* the filter of UpdateOne: bson.M{"_id": id}
UpdateFilter(doc, id) == doc._id = id

\* mongoAdoptionRepository.UpdateAdoptionApplicationStatus up to the end of UpdateOne
RepoUpdateAdoptionApplicationStatus(p) ==
    /\ At(p, "update.write")
    /\ \E t \in now..MaxClock :
          LET id == req[p].id
              c(res) == Call("repo.UpdateOne", id, res)
          IN  /\ TimeNow(t)
              /\ \/ /\ appStore[id] # <<>>
                    /\ UpdateFilter(appStore[id][1], id)
                    /\ LET doc == SetStatus(appStore[id][1], req[p].status, req[p].notes, t)
                       IN  /\ appStore' = [appStore EXCEPT ![id] = <<doc>>]
                           /\ storeVer' = [storeVer EXCEPT ![id] = @ + 1]
                    /\ UNCHANGED <<appCache, cacheVer>>
                    /\ warm' = [warm EXCEPT ![id] = <<>>]
                    /\ Step(p, c("ok"), "update.read",
                            [loc[p] EXCEPT !.pre = appStore[id], !.committed = TRUE,
                                           !.ver = storeVer[id] + 1])
                 \/ /\ \/ /\ ~(appStore[id] # <<>> /\ UpdateFilter(appStore[id][1], id))
                          /\ End(p, <<c("nomatch")>>, <<>>,
                                 UpdateRepoFailed(ErrAppNotFoundForUpdate))
                       \/ End(p, <<c("err")>>, <<>>, UpdateRepoFailed(DriverError))
                    /\ appCache' = [appCache EXCEPT ![id] = CacheAfterFailedUpdate(appCache, id)]
                    /\ cacheVer' = [cacheVer EXCEPT
                                       ![id] = IF appCache'[id] = <<>> THEN 0 ELSE @]
                    /\ UNCHANGED <<appStore, storeVer, warm, loc>>
    /\ seq' = <<>>
    /\ UNCHANGED <<PetVars, ackedVer>>

\* mongoAdoptionRepository.UpdateAdoptionApplicationStatus, its last line: the read
\* of the document it has written
RepoUpdateReadBack(p) ==
    /\ At(p, "update.read")
    /\ LET id == req[p].id
           c(res) == Call("repo.GetAdoptionApplicationByID", id, res)
       IN  \/ /\ appStore[id] # <<>>
              /\ Step(p, c("ok"), "update.invalidate",
                      [loc[p] EXCEPT !.app = <<BsonUnmarshal(appStore[id][1])>>])
           \/ /\ appStore[id] = <<>>
              /\ End(p, <<c("notfound")>>, <<>>, UpdateRepoFailed(ErrAppNotFound))
              /\ loc' = loc
           \/ /\ End(p, <<c("err")>>, <<>>, UpdateRepoFailed(DriverError))
              /\ loc' = loc
    /\ seq' = <<>>
    /\ UNCHANGED <<PetVars, AppVars, now, ackedVer, warm>>

\* redisAdoptionCache.DeleteAdoptionApplication
CacheDeleteAdoptionApplication(p) ==
    /\ At(p, "update.invalidate")
    /\ LET id == req[p].id
           c(res) == Call("cache.DeleteAdoptionApplication", id, res)
       IN  \/ /\ appCache' = [appCache EXCEPT ![id] = <<>>]
              /\ cacheVer' = [cacheVer EXCEPT ![id] = 0]
              /\ Step(p, c("ok"), "update.publish", loc[p])
           \/ /\ UNCHANGED <<appCache, cacheVer>>
              /\ Step(p, c("err"), "update.publish", loc[p])
    /\ seq' = <<>>
    /\ UNCHANGED <<PetVars, appStore, storeVer, now, ackedVer, warm>>

\* the event PublishAdoptionApplicationStatusUpdated marshals for app
StatusUpdatedEventData(app) ==
    [event_type |-> "AdoptionApplicationStatusUpdated",
     application_id |-> app.ID,
     user_id |-> app.UserID,
     pet_id |-> app.PetID,
     new_status |-> app.Status,
     updated_at |-> app.UpdatedAt,
     review_notes |-> app.ReviewNotes]

\* UpdatePublishCalls as it would be with one retry of a failed publish
UpdatePublishCallsWithRetry(app, res) ==
    IF res = "err"
    THEN <<Call("publisher.PublishAdoptionApplicationStatusUpdated", app.ID, "err"),
           Call("publisher.PublishAdoptionApplicationStatusUpdated", app.ID, "ok")>>
    ELSE <<Call("publisher.PublishAdoptionApplicationStatusUpdated", app.ID, res)>>

\* the calls of the publisher UpdateAdoptionApplicationStatus makes for the updated application
UpdatePublishCalls(app, res) ==
    <<Call("publisher.PublishAdoptionApplicationStatusUpdated",
           StatusUpdatedEventData(app).application_id, res)>>

\* what UpdateAdoptionApplicationStatus returns after the publisher returned pubErr
UpdateResult(app, pubErr) == [app |-> <<app>>, err |-> NoError]

\* natsAdoptionPublisher.PublishAdoptionApplicationStatusUpdated, and the usecase's return
PublishAdoptionApplicationStatusUpdated(p) ==
    /\ At(p, "update.publish")
    /\ \E res \in {"ok", "err"} :
          LET app == loc[p].app[1]
              out == UpdateResult(app, IF res = "ok" THEN NoError ELSE DriverError)
          IN  /\ End(p, UpdatePublishCalls(app, res), out.app, out.err)
              /\ loc' = loc
              /\ IF out.err = NoError
                 THEN /\ ackedVer' = [ackedVer EXCEPT ![req[p].id] = Max(@, loc[p].ver)]
                      /\ seq' = <<[id |-> req[p].id, status |-> req[p].status,
                                   before |-> loc[p].pre[1].updated_at, getter |-> 0]>>
                 ELSE /\ ackedVer' = ackedVer
                      /\ seq' = <<>>
    /\ UNCHANGED <<PetVars, AppVars, now, warm>>

-----------------------------------------------------------------------------
(* The pet service: petUsecase over mongoPetRepository and redisPetCache *)

PetSide == <<petStore, petCache, storeVer, cacheVer>>
AppSide == <<svc, appStore, appCache, NotifVars>>

FreePetIds == {id \in PetIds : storeVer[id] = 0}
NewPetObjectID == PetIdOf(CHOOSE i \in 1..MaxPets :
                      /\ PetIdOf(i) \in FreePetIds
                      /\ \A j \in 1..(i - 1) : PetIdOf(j) \notin FreePetIds)
InsertingPet == {q \in Procs : pc[q] = "createpet.insert"}

\* petUsecase.CreatePet up to its call of the repository
CreatePet(p) ==
    /\ Idle(p, "pet")
    /\ \E name \in PetNames, species \in PetSpecies, age \in PetAges :
          LET r == [NoReq EXCEPT !.op = "CreatePet", !.layer = "usecase",
                                 !.name = <<name>>, !.species = species, !.age = age]
          IN  IF name = "" \/ species = ""
              THEN BeginEnd(p, r, Reply(r, <<>>,
                       ErrorsNew("pet name and species are required", "usecase")))
              ELSE IF age < 0
              THEN BeginEnd(p, r, Reply(r, <<>>,
                       ErrorsNew("pet age cannot be negative", "usecase")))
              ELSE /\ Begin(p, r, "createpet.insert")
                   /\ Cardinality(FreePetIds) > Cardinality(InsertingPet)
    /\ seq' = <<>>
    /\ UNCHANGED <<AppSide, PetSide, now, ackedVer, warm>>

\* mongoPetRepository.CreatePet, and the usecase's return
RepoCreatePet(p) ==
    /\ At(p, "createpet.insert")
    /\ \E t \in now..MaxClock :
          LET id == NewPetObjectID
              pet == PetPrepareForCreate(
                         [NewPet(req[p].name[1], req[p].species, req[p].age) EXCEPT !.ID = id],
                         t)
              c(res) == Call("repo.CreatePet", id, res)
          IN  /\ TimeNow(t)
              /\ \/ /\ petStore' = [petStore EXCEPT ![id] = <<PetBsonMarshal(pet)>>]
                    /\ storeVer' = [storeVer EXCEPT ![id] = @ + 1]
                    /\ End(p, <<c("ok")>>, <<pet>>, NoError)
                    /\ loc' = [loc EXCEPT ![p] = [@ EXCEPT !.app = <<pet>>, !.committed = TRUE,
                                                          !.ver = storeVer[id] + 1]]
                 \/ /\ End(p, <<c("err")>>, <<>>, Wrap("could not create pet", DriverError))
                    /\ UNCHANGED <<petStore, storeVer, loc>>
    /\ seq' = <<>>
    /\ UNCHANGED <<AppSide, petCache, cacheVer, ackedVer, warm>>

-----------------------------------------------------------------------------

\* petUsecase.GetPetByID up to its call of the cache
GetPetByID(p) ==
    /\ Idle(p, "pet")
    /\ \E id \in PetIds \cup {""} :
          LET r == [NoReq EXCEPT !.op = "GetPetByID", !.layer = "usecase", !.id = id]
          IN  IF id = ""
              THEN BeginEnd(p, r, Reply(r, <<>>, ErrorsNew("pet ID is required", "usecase")))
              ELSE Begin(p, r, "getpet.cache")
    /\ seq' = <<>>
    /\ UNCHANGED <<AppSide, PetSide, now, ackedVer, warm>>

\* where GetPetByID goes after the cache answered: a hit returns
GetPetAfterCache(res) == IF res = "hit" THEN "return" ELSE "getpet.repo"

\* redisPetCache.GetPet
CacheGetPet(p) ==
    /\ At(p, "getpet.cache")
    /\ LET id == req[p].id
       IN  \E res \in {"answer", "err"} :
              LET out == IF res = "err" THEN "err"
                         ELSE IF petCache[id] = <<>> THEN "miss" ELSE "hit"
                  c == Call("cache.GetPet", id, out)
              IN  IF out = "hit" /\ GetPetAfterCache(out) = "return"
                  THEN /\ End(p, <<c>>, <<PetJsonUnmarshal(petCache[id][1])>>, NoError)
                       /\ loc' = [loc EXCEPT ![p].ver = cacheVer[id]]
                  ELSE Step(p, c, "getpet.repo", loc[p])
    /\ seq' = <<>>
    /\ UNCHANGED <<AppSide, PetSide, now, ackedVer, warm>>

\* mongoPetRepository.GetPetByID, called by the usecase's get
RepoGetPetByID(p) ==
    /\ At(p, "getpet.repo")
    /\ LET id == req[p].id
           c(res) == Call("repo.GetPetByID", id, res)
       IN  \/ /\ petStore[id] # <<>>
              /\ Step(p, c("ok"), "getpet.set",
                      [loc[p] EXCEPT !.app = <<PetBsonUnmarshal(petStore[id][1])>>,
                                     !.ver = storeVer[id]])
           \/ /\ petStore[id] = <<>>
              /\ End(p, <<c("notfound")>>, <<>>, ErrPetNotFound)
              /\ loc' = loc
           \/ /\ End(p, <<c("err")>>, <<>>, DriverError)
              /\ loc' = loc
    /\ seq' = <<>>
    /\ UNCHANGED <<AppSide, PetSide, now, ackedVer, warm>>

\* redisPetCache.SetPet, and the usecase's return
CacheSetPet(p) ==
    /\ At(p, "getpet.set")
    /\ LET id == req[p].id
           pet == loc[p].app[1]
           c(res) == Call("cache.SetPet", id, res)
       IN  /\ \/ /\ petCache' = [petCache EXCEPT ![id] = <<PetJsonMarshal(pet)>>]
                 /\ cacheVer' = [cacheVer EXCEPT ![id] = loc[p].ver]
                 /\ End(p, <<c("ok")>>, <<pet>>, NoError)
              \/ /\ UNCHANGED <<petCache, cacheVer>>
                 /\ End(p, <<c("err")>>, <<pet>>, NoError)
           /\ warm' = [warm EXCEPT ![id] = <<[app |-> pet, ver |-> loc[p].ver]>>]
    /\ loc' = loc
    /\ seq' = <<>>
    /\ UNCHANGED <<AppSide, petStore, storeVer, now, ackedVer>>

-----------------------------------------------------------------------------

\* the pet UpdatePet writes: the fetched pet with the request's fields applied
ApplyUpdate(pet, r) ==
    IF r.name # <<>> /\ r.name[1] # "" /\ r.name[1] # pet.Name
    THEN [pet EXCEPT !.Name = r.name[1]]
    ELSE pet

\* petUsecase.UpdatePet up to its fetch of the pet
UpdatePet(p) ==
    /\ Idle(p, "pet")
    /\ \E id \in PetIds \cup {""}, name \in NewPetNames :
          LET r == [NoReq EXCEPT !.op = "UpdatePet", !.layer = "usecase", !.id = id,
                                 !.name = name]
          IN  IF id = ""
              THEN BeginEnd(p, r, Reply(r, <<>>,
                       ErrorsNew("pet ID is required for update", "usecase")))
              ELSE Begin(p, r, "updatepet.fetch")
    /\ seq' = <<>>
    /\ UNCHANGED <<AppSide, PetSide, now, ackedVer, warm>>

\* mongoPetRepository.GetPetByID, called by UpdatePet; the request's fields are
\* applied to the pet it returns
RepoFetchPetForUpdate(p) ==
    /\ At(p, "updatepet.fetch")
    /\ LET id == req[p].id
           c(res) == Call("repo.GetPetByID", id, res)
       IN  \/ /\ petStore[id] # <<>>
              /\ LET pet == PetBsonUnmarshal(petStore[id][1])
                     new == ApplyUpdate(pet, req[p])
                 IN  IF new = pet
                     THEN /\ End(p, <<c("ok")>>, <<pet>>, NoError)
                          /\ loc' = loc
                     ELSE Step(p, c("ok"), "updatepet.write", [loc[p] EXCEPT !.app = <<new>>])
           \/ /\ petStore[id] = <<>>
              /\ End(p, <<c("notfound")>>, <<>>, ErrPetNotFound)
              /\ loc' = loc
           \/ /\ End(p, <<c("err")>>, <<>>, DriverError)
              /\ loc' = loc
    /\ seq' = <<>>
    /\ UNCHANGED <<AppSide, PetSide, now, ackedVer, warm>>

\* the document UpdateOne leaves: $set of every field of the pet but _id and created_at
SetPet(doc, pet) ==
    [doc EXCEPT !.name = pet.Name,
                !.species = pet.Species,
                !.age = pet.Age,
                !.adoption_status = pet.AdoptionStatus,
                !.adopted_by_user_id = pet.AdoptedByUserID,
                !.updated_at = BsonDateTime(pet.UpdatedAt)]

\* the pet cache entry after a store write of a pet operation failed: the usecase
\* returns at once
PetCacheAfterFailedWrite(cache, id) == cache[id]

\* a store write of a pet operation failed; the usecase returns err
PetWriteFailed(p, c, err) ==
    /\ End(p, <<c>>, <<>>, err)
    /\ petCache' = [petCache EXCEPT ![req[p].id] = PetCacheAfterFailedWrite(petCache, req[p].id)]
    /\ cacheVer' = [cacheVer EXCEPT ![req[p].id] = IF petCache'[req[p].id] = <<>> THEN 0 ELSE @]
    /\ UNCHANGED <<petStore, storeVer, warm, loc>>

\* mongoPetRepository.UpdatePet
RepoUpdatePet(p) ==
    /\ At(p, "updatepet.write")
    /\ \E t \in now..MaxClock :
          LET id == req[p].id
              pet == PetPrepareForUpdate(loc[p].app[1], t)
              c(res) == Call("repo.UpdatePet", id, res)
          IN  /\ TimeNow(t)
              /\ \/ /\ petStore[id] # <<>>
                    /\ petStore' = [petStore EXCEPT ![id] = <<SetPet(petStore[id][1], pet)>>]
                    /\ storeVer' = [storeVer EXCEPT ![id] = @ + 1]
                    /\ UNCHANGED <<petCache, cacheVer>>
                    /\ warm' = [warm EXCEPT ![id] = <<>>]
                    /\ Step(p, c("ok"), "updatepet.invalidate",
                            [loc[p] EXCEPT !.app = <<pet>>, !.pre = petStore[id],
                                           !.committed = TRUE, !.ver = storeVer[id] + 1])
                 \/ /\ petStore[id] = <<>>
                    /\ PetWriteFailed(p, c("nomatch"),
                           Wrap("could not update pet",
                                ErrorsNew("pet not found for update", "mongodb_repository")))
                 \/ PetWriteFailed(p, c("err"), Wrap("could not update pet", DriverError))
    /\ seq' = <<>>
    /\ UNCHANGED <<AppSide, ackedVer>>

\* PetWriteResult as it would be if a failed cache delete failed the write operation
PetWriteResultFailingOnCacheDelete(out, cacheErr) ==
    [app |-> IF cacheErr = NoError THEN out ELSE <<>>, err |-> cacheErr]

\* what a write operation of the pet usecase returns after the cache delete
\* returned cacheErr
PetWriteResult(out, cacheErr) == [app |-> out, err |-> NoError]

\* EntryAfterDelete as it would be if the usecase wrote the pet it returns to the cache
EntryAfterDeleteWriteThrough(out) ==
    IF out = <<>> THEN <<>> ELSE <<PetJsonMarshal(out[1])>>

\* the cache entry of a pet after a write operation that returns out has
\* invalidated it: the key is deleted
EntryAfterDelete(out) == <<>>

\* redisPetCache.DeletePet after a store write, and the usecase's return of out
InvalidatePet(p, out) ==
    LET id == req[p].id
        c(res) == Call("cache.DeletePet", id, res)
        ret(cacheErr) == PetWriteResult(out, cacheErr)
    IN  /\ \/ /\ petCache' = [petCache EXCEPT ![id] = EntryAfterDelete(out)]
              /\ cacheVer' = [cacheVer EXCEPT ![id] = 0]
              /\ End(p, <<c("ok")>>, ret(NoError).app, ret(NoError).err)
           \/ /\ UNCHANGED <<petCache, cacheVer>>
              /\ End(p, <<c("err")>>, ret(DriverError).app, ret(DriverError).err)
        /\ ackedVer' = [ackedVer EXCEPT ![id] = Max(@, loc[p].ver)]
        /\ loc' = loc
        /\ seq' = <<>>
        /\ UNCHANGED <<AppSide, petStore, storeVer, now, warm>>

\* UpdatePet's invalidation of the cache
CacheDeletePetAfterUpdate(p) ==
    /\ At(p, "updatepet.invalidate")
    /\ InvalidatePet(p, loc[p].app)

-----------------------------------------------------------------------------

\* petUsecase.UpdatePetAdoptionStatus up to its call of the repository
UpdatePetAdoptionStatus(p) ==
    /\ Idle(p, "pet")
    /\ \E id \in PetIds \cup {""}, newStatus \in AdoptionStatuses, adopter \in AdopterUserIDs :
          LET r == [NoReq EXCEPT !.op = "UpdatePetAdoptionStatus", !.layer = "usecase",
                                 !.id = id, !.status = newStatus, !.adopter = adopter]
          IN  IF id = ""
              THEN BeginEnd(p, r, Reply(r, <<>>,
                       ErrorsNew("pet ID is required for status update", "usecase")))
              ELSE IF ~IsValidAdoptionStatus(newStatus)
              THEN BeginEnd(p, r, Reply(r, <<>>,
                       ErrorsNew("invalid new adoption status", "usecase")))
              ELSE IF newStatus = StatusAdopted /\ (adopter = <<>> \/ adopter[1] = "")
              THEN BeginEnd(p, r, Reply(r, <<>>,
                       ErrorsNew("adopter user ID is required when setting status to ADOPTED",
                                 "usecase")))
              ELSE Begin(p, r, "petstatus.write")
    /\ seq' = <<>>
    /\ UNCHANGED <<AppSide, PetSide, now, ackedVer, warm>>

\* SetAdoptionStatus as it would be if the adopter were never cleared
SetAdoptionStatusKeepAdopter(doc, newStatus, adopter, t) ==
    LET d == [doc EXCEPT !.adoption_status = newStatus, !.updated_at = BsonDateTime(t)]
    IN  IF adopter # <<>> /\ adopter[1] # "" /\ newStatus = StatusAdopted
        THEN [d EXCEPT !.adopted_by_user_id = adopter[1]]
        ELSE d

\* the document UpdateOne leaves: $set of adoption_status and updated_at, and of
\* adopted_by_user_id when the pet is adopted or stops being adopted
SetAdoptionStatus(doc, newStatus, adopter, t) ==
    LET d == [doc EXCEPT !.adoption_status = newStatus, !.updated_at = BsonDateTime(t)]
    IN  IF adopter # <<>> /\ adopter[1] # "" /\ newStatus = StatusAdopted
        THEN [d EXCEPT !.adopted_by_user_id = adopter[1]]
        ELSE IF newStatus # StatusAdopted
        THEN [d EXCEPT !.adopted_by_user_id = ""]
        ELSE d

PetStatusFailed(err) == Wrap("could not update pet adoption status", err)

\* mongoPetRepository.UpdatePetAdoptionStatus up to the end of UpdateOne
RepoUpdatePetAdoptionStatus(p) ==
    /\ At(p, "petstatus.write")
    /\ \E t \in now..MaxClock :
          LET id == req[p].id
              c(res) == Call("repo.UpdateOne", id, res)
          IN  /\ TimeNow(t)
              /\ \/ /\ petStore[id] # <<>>
                    /\ petStore' = [petStore EXCEPT ![id] =
                           <<SetAdoptionStatus(petStore[id][1], req[p].status, req[p].adopter, t)>>]
                    /\ storeVer' = [storeVer EXCEPT ![id] = @ + 1]
                    /\ UNCHANGED <<petCache, cacheVer>>
                    /\ warm' = [warm EXCEPT ![id] = <<>>]
                    /\ Step(p, c("ok"), "petstatus.read",
                            [loc[p] EXCEPT !.pre = petStore[id], !.committed = TRUE,
                                           !.ver = storeVer[id] + 1])
                 \/ /\ petStore[id] = <<>>
                    /\ PetWriteFailed(p, c("nomatch"),
                           PetStatusFailed(ErrorsNew("pet not found for status update",
                                                     "mongodb_repository")))
                 \/ PetWriteFailed(p, c("err"), PetStatusFailed(DriverError))
    /\ seq' = <<>>
    /\ UNCHANGED <<AppSide, ackedVer>>

\* mongoPetRepository.UpdatePetAdoptionStatus, its last line: the read of the
\* document it has written
RepoPetStatusReadBack(p) ==
    /\ At(p, "petstatus.read")
    /\ LET id == req[p].id
           c(res) == Call("repo.GetPetByID", id, res)
       IN  \/ /\ petStore[id] # <<>>
              /\ Step(p, c("ok"), "petstatus.invalidate",
                      [loc[p] EXCEPT !.app = <<PetBsonUnmarshal(petStore[id][1])>>])
           \/ /\ petStore[id] = <<>>
              /\ End(p, <<c("notfound")>>, <<>>, PetStatusFailed(ErrPetNotFound))
              /\ loc' = loc
           \/ /\ End(p, <<c("err")>>, <<>>, PetStatusFailed(DriverError))
              /\ loc' = loc
    /\ seq' = <<>>
    /\ UNCHANGED <<AppSide, PetSide, now, ackedVer, warm>>

\* UpdatePetAdoptionStatus's invalidation of the cache
CacheDeletePetAfterStatus(p) ==
    /\ At(p, "petstatus.invalidate")
    /\ InvalidatePet(p, loc[p].app)

-----------------------------------------------------------------------------

\* petUsecase.DeletePet up to its call of the repository
DeletePet(p) ==
    /\ Idle(p, "pet")
    /\ \E id \in PetIds \cup {""} :
          LET r == [NoReq EXCEPT !.op = "DeletePet", !.layer = "usecase", !.id = id]
          IN  IF id = ""
              THEN BeginEnd(p, r, Reply(r, <<>>,
                       ErrorsNew("pet ID is required for deletion", "usecase")))
              ELSE Begin(p, r, "deletepet.write")
    /\ seq' = <<>>
    /\ UNCHANGED <<AppSide, PetSide, now, ackedVer, warm>>

\* mongoPetRepository.DeletePet
RepoDeletePet(p) ==
    /\ At(p, "deletepet.write")
    /\ LET id == req[p].id
           c(res) == Call("repo.DeletePet", id, res)
       IN  \/ /\ petStore[id] # <<>>
              /\ petStore' = [petStore EXCEPT ![id] = <<>>]
              /\ storeVer' = [storeVer EXCEPT ![id] = @ + 1]
              /\ UNCHANGED <<petCache, cacheVer>>
              /\ warm' = [warm EXCEPT ![id] = <<>>]
              /\ Step(p, c("ok"), "deletepet.invalidate",
                      [loc[p] EXCEPT !.pre = petStore[id], !.committed = TRUE,
                                     !.ver = storeVer[id] + 1])
           \/ /\ petStore[id] = <<>>
              /\ PetWriteFailed(p, c("nomatch"),
                     Wrap("could not delete pet",
                          ErrorsNew("pet not found for deletion", "mongodb_repository")))
           \/ PetWriteFailed(p, c("err"), Wrap("could not delete pet", DriverError))
    /\ seq' = <<>>
    /\ UNCHANGED <<AppSide, now, ackedVer>>

\* DeletePet's invalidation of the cache
CacheDeletePetAfterDelete(p) ==
    /\ At(p, "deletepet.invalidate")
    /\ InvalidatePet(p, <<>>)

-----------------------------------------------------------------------------
(* The environment *)

\* the caller has the reply of its call; the goroutine that served it is gone
Return(p) ==
    /\ pc[p] = "return"
    /\ pc' = [pc EXCEPT ![p] = "idle"]
    /\ req' = [req EXCEPT ![p] = NoReq]
    /\ loc' = [loc EXCEPT ![p] = NoLoc]
    /\ calls' = [calls EXCEPT ![p] = <<>>]
    /\ resp' = [resp EXCEPT ![p] = NoResp]
    /\ UNCHANGED <<AppVars, PetVars, now, ops, ackedVer, warm, seq>>

\* Redis drops an entry whose time to live (one hour) has passed
ExpireAdoptionApplication ==
    /\ ~Replying
    /\ \E id \in AppIds :
          /\ appCache[id] # <<>>
          /\ appCache' = [appCache EXCEPT ![id] = <<>>]
          /\ cacheVer' = [cacheVer EXCEPT ![id] = 0]
    /\ UNCHANGED <<PetVars, appStore, storeVer, now, ops, pc, req, loc, calls, resp, ackedVer,
                   warm, seq>>

\* Redis drops a pet entry whose time to live (one hour) has passed
ExpirePet ==
    /\ ~Replying
    /\ \E id \in PetIds :
          /\ petCache[id] # <<>>
          /\ petCache' = [petCache EXCEPT ![id] = <<>>]
          /\ cacheVer' = [cacheVer EXCEPT ![id] = 0]
    /\ UNCHANGED <<AppSide, petStore, storeVer, now, ops, pc, req, loc, calls, resp, ackedVer,
                   warm, seq>>

-----------------------------------------------------------------------------

-----------------------------------------------------------------------------
(* The notification service: NATSConsumer over two core NATS subscriptions,
   NotificationService as its EventHandler, and main's shutdown.  The client
   library runs the callback of a subscription for one message at a time, in the
   order of arrival; the callbacks of the two subscriptions run side by side. *)

SubjectCreated == "adoption.application.created"
SubjectStatusUpdated == "adoption.application.status.updated"
\* NATSConsumer.subscriptions, in the order StartSubscribers appends them
Subjects == <<SubjectCreated, SubjectStatusUpdated>>
SubjectSet == {SubjectCreated, SubjectStatusUpdated}

\* the timestamps a payload can carry, as JSON strings
Timestamps == {"2024-05-01T10:00:00Z"}

\* the payloads received: what the adoption service publishes for a created and
\* for an updated application, and what any other publisher can send
CreatedPayload(userID) ==
    [syntax |-> "json",
     obj |-> [event_type |-> "AdoptionApplicationCreated", application_id |-> "a1",
              user_id |-> userID, pet_id |-> "pet456", status |-> "PENDING_REVIEW",
              applied_at |-> "2024-05-01T10:00:00Z"]]
StatusUpdatedPayload(newStatus, reviewNotes) ==
    [syntax |-> "json",
     obj |-> [event_type |-> "AdoptionApplicationStatusUpdated", application_id |-> "a1",
              user_id |-> "user123", pet_id |-> "pet456", new_status |-> newStatus,
              updated_at |-> "2024-05-01T10:00:00Z", review_notes |-> reviewNotes]]
\* not JSON at all
GarbagePayload == [syntax |-> "garbage", obj |-> [raw |-> "{not json"]]
\* JSON whose time fields are no timestamps
BadTimePayload ==
    [syntax |-> "json",
     obj |-> [event_type |-> "?", applied_at |-> "yesterday", updated_at |-> "yesterday"]]
\* a JSON object with none of the fields of an event
BarePayload == [syntax |-> "json", obj |-> [event_type |-> "?"]]

\* the payloads received on each subject
Payloads(s) ==
    IF s = SubjectCreated
    THEN {CreatedPayload("user123"), GarbagePayload, BarePayload}
    ELSE {StatusUpdatedPayload("APPROVED", ""), StatusUpdatedPayload("APPROVED", "looks good"),
          StatusUpdatedPayload("REJECTED", "looks good"),
          StatusUpdatedPayload("CANCELLED_BY_USER", ""), BadTimePayload}

\* encoding/json: the string field of key k, or the zero value if the key is absent
StringField(obj, k) == IF k \in DOMAIN obj THEN obj[k] ELSE ""
\* encoding/json: a time.Time field takes an RFC 3339 string, and an absent key
\* leaves the zero time
TimeFieldOk(obj, k) == k \in DOMAIN obj => obj[k] \in Timestamps

NoEvent == <<>>

\* json.Unmarshal(msg.Data, &event) for an AdoptionApplicationCreatedEvent:
\* <<the event>>, or <<>> for an error
UnmarshalCreatedEvent(data) ==
    IF data.syntax # "json" \/ ~TimeFieldOk(data.obj, "applied_at") THEN NoEvent
    ELSE <<[EventType |-> StringField(data.obj, "event_type"),
            ApplicationID |-> StringField(data.obj, "application_id"),
            UserID |-> StringField(data.obj, "user_id"),
            PetID |-> StringField(data.obj, "pet_id"),
            Status |-> StringField(data.obj, "status"),
            ReviewNotes |-> "",
            At |-> StringField(data.obj, "applied_at")]>>

\* json.Unmarshal(msg.Data, &event) for an AdoptionApplicationStatusUpdatedEvent;
\* Status stands for NewStatus and At for UpdatedAt
UnmarshalStatusUpdatedEvent(data) ==
    IF data.syntax # "json" \/ ~TimeFieldOk(data.obj, "updated_at") THEN NoEvent
    ELSE <<[EventType |-> StringField(data.obj, "event_type"),
            ApplicationID |-> StringField(data.obj, "application_id"),
            UserID |-> StringField(data.obj, "user_id"),
            PetID |-> StringField(data.obj, "pet_id"),
            Status |-> StringField(data.obj, "new_status"),
            ReviewNotes |-> StringField(data.obj, "review_notes"),
            At |-> StringField(data.obj, "updated_at")]>>

\* UnmarshalEvent as it would be if a payload that does not decode gave the zero event
UnmarshalEventLenient(subject, data) ==
    <<[EventType |-> "", ApplicationID |-> "", UserID |-> "user123", PetID |-> "pet456",
       Status |-> "", ReviewNotes |-> "", At |-> ""]>>

\* the decoding the callback of the subject does
UnmarshalEvent(subject, data) ==
    IF subject = SubjectCreated THEN UnmarshalCreatedEvent(data)
    ELSE UnmarshalStatusUpdatedEvent(data)

\* what the user service and the pet service hold
UserEmail == "ann@example.com"
UserFullName == "Ann"
PetName == "Rex"
\* the replies of userServiceClient.GetUser: an error, no user, a user with and without email
UserReplies == {"err", "nil", "noemail", "ok"}
\* the replies of petServiceClient.GetPet: an error, no pet, a pet with and without name
PetReplies == {"err", "nil", "noname", "ok"}

\* a call of the handler to a collaborator, as the history keeps it
NCall(fn, arg, res) == [fn |-> fn, arg |-> arg, res |-> res, to |-> <<>>, subject |-> <<>>,
                        body |-> <<>>]
Email(to, subject, body, res) ==
    [fn |-> "email.SendEmail", arg |-> "", res |-> res, to |-> to, subject |-> subject,
     body |-> body]

\* the subject line and the body of the email for a created application, as the
\* pieces fmt.Sprintf puts together
CreatedSubject(event, petName) ==
    <<"Adoption Application Received for ", petName, " (ID: ", event.ApplicationID, ")">>
CreatedBody(event, fullName, petName) ==
    <<"<h1>Adoption Application Received!</h1>", "<p>Dear ", fullName, ",</p>",
      "<p>Thank you for submitting your adoption application (ID: ", event.ApplicationID,
      ") for <strong>", petName, "</strong> (Pet ID: ", event.PetID, ").</p>",
      "<p>Your application is currently in status: <strong>", event.Status, "</strong>.</p>",
      "<p>We will review your application and get back to you soon.</p>",
      "<p>Thank you,<br/>The PetStore Team</p>">>

ApprovedParagraph ==
    "<p>Congratulations! Your application has been approved. We will contact you shortly with the next steps.</p>"
RejectedParagraph ==
    "<p>We regret to inform you that your application was not approved at this time. Thank you for your interest.</p>"

\* StatusParagraph as it would be with the same copy for every decision
StatusParagraphSameCopy(newStatus) ==
    IF newStatus \in {"APPROVED", "REJECTED"} THEN <<ApprovedParagraph>> ELSE <<>>

\* the paragraph the status-updated email carries for the new status
StatusParagraph(newStatus) ==
    IF newStatus = "APPROVED" THEN <<ApprovedParagraph>>
    ELSE IF newStatus = "REJECTED" THEN <<RejectedParagraph>>
    ELSE <<>>

NotesParagraph(reviewNotes) ==
    IF reviewNotes # "" THEN <<"<p>Reviewer's Notes: ", reviewNotes, "</p>">> ELSE <<>>

StatusUpdatedSubject(event, petName) ==
    <<"Update on Your Adoption Application for ", petName, " (ID: ", event.ApplicationID, ")">>
StatusUpdatedBody(event, fullName, petName) ==
    <<"<h1>Adoption Application Status Update!</h1>", "<p>Dear ", fullName, ",</p>",
      "<p>There's an update on your adoption application (ID: ", event.ApplicationID,
      ") for <strong>", petName, "</strong> (Pet ID: ", event.PetID, ").</p>",
      "<p>Your application status is now: <strong>", event.Status, "</strong>.</p>">>
    \o NotesParagraph(event.ReviewNotes)
    \o StatusParagraph(event.Status)
    \o <<"<p>Thank you,<br/>The PetStore Team</p>">>

\* EmailSubject as it would be if both callbacks called the status-updated handler
EmailSubjectOneHandler(subject, event, petName) == StatusUpdatedSubject(event, petName)

\* the subject line of the email: of the handler the callback of the subject calls
EmailSubject(subject, event, petName) ==
    IF subject = SubjectCreated THEN CreatedSubject(event, petName)
    ELSE StatusUpdatedSubject(event, petName)
EmailBody(subject, event, fullName, petName) ==
    IF subject = SubjectCreated THEN CreatedBody(event, fullName, petName)
    ELSE StatusUpdatedBody(event, fullName, petName)

\* what the history keeps of a message: whether its callback has started and
\* whether stopChan was closed by then, how often the event handler was invoked
\* for it, the calls the handler made and how the callback ended
Msg(subject, data) ==
    [subject |-> subject, data |-> data, started |-> FALSE, late |-> FALSE, invoked |-> 0,
     calls |-> <<>>, result |-> ""]
NoHLoc == [event |-> NoEvent, email |-> "", fullName |-> "", petName |-> ""]

NotifInit ==
    /\ subs = [s \in SubjectSet |-> TRUE]
    /\ pending = [s \in SubjectSet |-> <<>>]
    /\ msgs = <<>>
    /\ hpc = [s \in SubjectSet |-> "idle"]
    /\ hmsg = [s \in SubjectSet |-> 0]
    /\ hloc = [s \in SubjectSet |-> NoHLoc]
    /\ shutdownWg = 0
    /\ stopChan = FALSE
    /\ conn = "open"
    /\ cpc = "serving"
    /\ waitEnd = ""

\* the state of the adoption service and of the pet service
ServiceVars == <<appStore, appCache, petStore, petCache, now, ops, pc, req, loc, calls, resp,
                 storeVer, cacheVer, ackedVer, warm, seq, svc>>
ConsumerVars == <<subs, stopChan, conn, cpc, waitEnd>>

\* the server hands a message on the subject to the client: the subscription's
\* queue takes it
Deliver ==
    /\ svc = "notification"
    /\ Len(msgs) < MaxMsgs
    /\ conn = "open"
    /\ \E s \in SubjectSet :
       \E data \in Payloads(s) :
          /\ subs[s]
          /\ msgs' = Append(msgs, Msg(s, data))
          /\ pending' = [pending EXCEPT ![s] = Append(@, Len(msgs) + 1)]
    /\ UNCHANGED <<ServiceVars, ConsumerVars, hpc, hmsg, hloc, shutdownWg>>

\* the client library takes the next message of a subscription when the callback
\* has returned for the one before
DispatchReady(s) == pending[s] # <<>> /\ hpc[s] = "idle"

\* NextIndex as it would be if the client library took the newest message first
NextIndexNewest(queue) == Len(queue)

\* the place in a subscription's queue of the message the client library takes
\* next: the oldest
NextIndex(queue) == 1

\* the client library calls the callback (handleCreatedMessage or
\* handleStatusUpdatedMessage) for the message at the head of the queue
Dispatch(s) ==
    /\ svc = "notification"
    /\ DispatchReady(s)
    /\ subs[s]
    /\ hpc' = [hpc EXCEPT ![s] = "add"]
    /\ LET i == NextIndex(pending[s])
       IN  /\ hmsg' = [hmsg EXCEPT ![s] = pending[s][i]]
           /\ pending' = [pending EXCEPT ![s] = SubSeq(@, 1, i - 1) \o SubSeq(@, i + 1, Len(@))]
           /\ msgs' = [msgs EXCEPT ![pending[s][i]].started = TRUE,
                                   ![pending[s][i]].late = stopChan]
    /\ UNCHANGED <<ServiceVars, ConsumerVars, hloc, shutdownWg>>

\* c.shutdownWg.Add(1)
WgAdd(s) ==
    /\ svc = "notification"
    /\ hpc[s] = "add"
    /\ shutdownWg' = shutdownWg + 1
    /\ hpc' = [hpc EXCEPT ![s] = "select"]
    /\ UNCHANGED <<ServiceVars, ConsumerVars, pending, msgs, hmsg, hloc>>

\* the callback returns with the given outcome for its message, the handler having
\* made the calls cs; the deferred c.shutdownWg.Done() runs
CallbackReturns(s, cs, result) ==
    /\ msgs' = [msgs EXCEPT ![hmsg[s]].calls = @ \o cs, ![hmsg[s]].result = result]
    /\ hpc' = [hpc EXCEPT ![s] = "idle"]
    /\ hmsg' = [hmsg EXCEPT ![s] = 0]
    /\ hloc' = [hloc EXCEPT ![s] = NoHLoc]
    /\ shutdownWg' = shutdownWg - 1
    /\ UNCHANGED <<ServiceVars, ConsumerVars, pending>>

\* the handler goes on to label l after the call c
HandlerStep(s, c, l, l2) ==
    /\ msgs' = [msgs EXCEPT ![hmsg[s]].calls = Append(@, c)]
    /\ hpc' = [hpc EXCEPT ![s] = l]
    /\ hloc' = [hloc EXCEPT ![s] = l2]
    /\ UNCHANGED <<ServiceVars, ConsumerVars, pending, hmsg, shutdownWg>>

\* StopSelected as it would be if the callback did not look at stopChan
StopSelectedNever(closed) == FALSE

\* whether the callback's select takes the case <-c.stopChan: it does when the
\* channel is closed, and takes the default case otherwise
StopSelected(closed) == closed

\* the select on stopChan, json.Unmarshal, and the call of the event handler
SelectAndDecode(s) ==
    /\ svc = "notification"
    /\ hpc[s] = "select"
    /\ IF StopSelected(stopChan)
       THEN CallbackReturns(s, <<>>, "stopped")
       ELSE LET event == UnmarshalEvent(s, msgs[hmsg[s]].data)
            IN  IF event = NoEvent
                THEN CallbackReturns(s, <<>>, "dropped")
                ELSE /\ msgs' = [msgs EXCEPT ![hmsg[s]].invoked = @ + 1]
                     /\ hpc' = [hpc EXCEPT ![s] = "user"]
                     /\ hloc' = [hloc EXCEPT ![s] = [NoHLoc EXCEPT !.event = event]]
                     /\ UNCHANGED <<ServiceVars, ConsumerVars, pending, hmsg, shutdownWg>>

\* HandleRetry as it would be with one retry of a failed handler
HandleRetryOnce(n) == msgs[n].invoked < 2

\* whether the callback hands a message to the event handler again after the
\* handler returned an error: never
HandleRetry(n) == FALSE

\* the event handler returns an error after the calls cs: the callback logs it
HandlerFails(s, cs) ==
    IF HandleRetry(hmsg[s])
    THEN /\ msgs' = [msgs EXCEPT ![hmsg[s]].calls = @ \o cs, ![hmsg[s]].invoked = @ + 1]
         /\ hpc' = [hpc EXCEPT ![s] = "user"]
         /\ hloc' = [hloc EXCEPT ![s] = [NoHLoc EXCEPT !.event = hloc[s].event]]
         /\ UNCHANGED <<ServiceVars, ConsumerVars, pending, hmsg, shutdownWg>>
    ELSE CallbackReturns(s, cs, "err")

\* what the handler does with the reply of the user service: "fail" or "go on"
AfterUser(reply) == IF reply = "ok" THEN "pet" ELSE "fail"

\* userServiceClient.GetUserDetails and the handler's check of the user
GetUserDetails(s) ==
    /\ svc = "notification"
    /\ hpc[s] = "user"
    /\ LET id == hloc[s].event[1].UserID
       IN  IF id = ""
           THEN HandlerFails(s, <<>>)
           ELSE \E reply \in UserReplies :
                   LET c == NCall("user.GetUser", id, reply)
                   IN  IF AfterUser(reply) = "pet"
                       THEN HandlerStep(s, c, "pet",
                                [hloc[s] EXCEPT !.email = UserEmail,
                                                !.fullName = UserFullName])
                       ELSE HandlerFails(s, <<c>>)

\* AfterPet as it would be if a pet without a name were accepted
AfterPetAnyName(reply) == IF reply \in {"ok", "noname"} THEN "send" ELSE "fail"

\* what the handler does with the reply of the pet service
AfterPet(reply) == IF reply = "ok" THEN "send" ELSE "fail"

\* petServiceClient.GetPetDetails and the handler's check of the pet
GetPetDetails(s) ==
    /\ svc = "notification"
    /\ hpc[s] = "pet"
    /\ LET id == hloc[s].event[1].PetID
       IN  IF id = ""
           THEN HandlerFails(s, <<>>)
           ELSE \E reply \in PetReplies :
                   LET c == NCall("pet.GetPet", id, reply)
                   IN  IF AfterPet(reply) = "send"
                       THEN HandlerStep(s, c, "send",
                                [hloc[s] EXCEPT !.petName = IF reply = "ok" THEN PetName
                                                            ELSE ""])
                       ELSE HandlerFails(s, <<c>>)

\* emailSender.SendEmail and the return of the handler
SendEmail(s) ==
    /\ svc = "notification"
    /\ hpc[s] = "send"
    /\ \E res \in {"ok", "err"} :
          LET event == hloc[s].event[1]
              c == Email(<<hloc[s].email>>, EmailSubject(s, event, hloc[s].petName),
                         EmailBody(s, event, hloc[s].fullName, hloc[s].petName), res)
          IN  IF res = "ok" THEN CallbackReturns(s, <<c>>, "ok")
              ELSE HandlerFails(s, <<c>>)

HandlerVars == <<pending, msgs, hpc, hmsg, hloc, shutdownWg>>

\* main has the signal and calls NATSConsumer.Close: close(c.stopChan)
CloseStopChan ==
    /\ svc = "notification"
    /\ cpc = "serving"
    /\ stopChan' = TRUE
    /\ cpc' = "unsubscribe"
    /\ UNCHANGED <<ServiceVars, HandlerVars, subs, conn, waitEnd>>

\* the subscriptions Close has still to unsubscribe, in order
Subscribed == SelectSeq(Subjects, LAMBDA s : subs[s])

\* sub.Unsubscribe() for the next subscription: the client drops the subscription
\* and the messages it holds for it
Unsubscribe ==
    /\ svc = "notification"
    /\ cpc = "unsubscribe"
    /\ LET s == Head(Subscribed)
       IN  /\ subs' = [subs EXCEPT ![s] = FALSE]
           /\ pending' = [pending EXCEPT ![s] = <<>>]
           /\ cpc' = IF Len(Subscribed) = 1 THEN "drain" ELSE "unsubscribe"
    /\ UNCHANGED <<ServiceVars, msgs, hpc, hmsg, hloc, shutdownWg, stopChan, conn, waitEnd>>

\* c.nc.Drain(): the connection starts to drain, or Drain returns an error
Drain ==
    /\ svc = "notification"
    /\ cpc = "drain"
    /\ \/ conn' = "draining"
       \/ conn' = conn
    /\ cpc' = "wait"
    /\ UNCHANGED <<ServiceVars, HandlerVars, subs, stopChan, waitEnd>>

\* the client library closes the connection it has drained
DrainCompletes ==
    /\ svc = "notification"
    /\ conn = "draining"
    /\ conn' = "closed"
    /\ UNCHANGED <<ServiceVars, HandlerVars, subs, stopChan, cpc, waitEnd>>

\* the wait of Close ends: c.shutdownWg.Wait() has returned and done is closed
WaitDone ==
    /\ svc = "notification"
    /\ cpc = "wait"
    /\ shutdownWg = 0
    /\ waitEnd' = "done"
    /\ cpc' = "returned"
    /\ UNCHANGED <<ServiceVars, HandlerVars, subs, stopChan, conn>>

\* the wait of Close ends: time.After(10 * time.Second) fires while a callback
\* has not yet called Done
WaitTimeout ==
    /\ svc = "notification"
    /\ cpc = "wait"
    /\ shutdownWg > 0
    /\ waitEnd' = "timeout"
    /\ cpc' = "returned"
    /\ UNCHANGED <<ServiceVars, HandlerVars, subs, stopChan, conn>>

-----------------------------------------------------------------------------

Init ==
    /\ svc \in {"adoption", "pet"}
    /\ NotifInit
    /\ appStore = [id \in AppIds |-> <<>>]
    /\ appCache = [id \in AppIds |-> <<>>]
    /\ petStore = [id \in PetIds |-> <<>>]
    /\ petCache = [id \in PetIds |-> <<>>]
    /\ now = 3
    /\ ops = 0
    /\ pc = [p \in Procs |-> "idle"]
    /\ req = [p \in Procs |-> NoReq]
    /\ loc = [p \in Procs |-> NoLoc]
    /\ calls = [p \in Procs |-> <<>>]
    /\ resp = [p \in Procs |-> NoResp]
    /\ storeVer = [id \in Ids |-> 0]
    /\ cacheVer = [id \in Ids |-> 0]
    /\ ackedVer = [id \in Ids |-> 0]
    /\ warm = [id \in Ids |-> <<>>]
    /\ seq = <<>>

Next ==
    \/ \E p \in Procs : CreateAdoptionApplication(p)
    \/ \E p \in Procs : RepoCreateAdoptionApplication(p)
    \/ \E p \in Procs : PublishAdoptionApplicationCreated(p)
    \/ \E p \in Procs : GetAdoptionApplicationByID(p)
    \/ \E p \in Procs : CacheGetAdoptionApplication(p)
    \/ \E p \in Procs : RepoGetAdoptionApplicationByID(p)
    \/ \E p \in Procs : CacheSetAdoptionApplication(p)
    \/ \E p \in Procs : HandlerUpdateAdoptionApplicationStatus(p)
    \/ \E p \in Procs : RepoUpdateAdoptionApplicationStatus(p)
    \/ \E p \in Procs : RepoUpdateReadBack(p)
    \/ \E p \in Procs : CacheDeleteAdoptionApplication(p)
    \/ \E p \in Procs : PublishAdoptionApplicationStatusUpdated(p)
    \/ \E p \in Procs : CreatePet(p)
    \/ \E p \in Procs : RepoCreatePet(p)
    \/ \E p \in Procs : GetPetByID(p)
    \/ \E p \in Procs : CacheGetPet(p)
    \/ \E p \in Procs : RepoGetPetByID(p)
    \/ \E p \in Procs : CacheSetPet(p)
    \/ \E p \in Procs : UpdatePet(p)
    \/ \E p \in Procs : RepoFetchPetForUpdate(p)
    \/ \E p \in Procs : RepoUpdatePet(p)
    \/ \E p \in Procs : CacheDeletePetAfterUpdate(p)
    \/ \E p \in Procs : UpdatePetAdoptionStatus(p)
    \/ \E p \in Procs : RepoUpdatePetAdoptionStatus(p)
    \/ \E p \in Procs : RepoPetStatusReadBack(p)
    \/ \E p \in Procs : CacheDeletePetAfterStatus(p)
    \/ \E p \in Procs : DeletePet(p)
    \/ \E p \in Procs : RepoDeletePet(p)
    \/ \E p \in Procs : CacheDeletePetAfterDelete(p)
    \/ \E p \in Procs : Return(p)
    \/ ExpireAdoptionApplication
    \/ ExpirePet

Spec == Init /\ [][Next]_vars

\* the notification service alone: the other services stand still
ConsumerInit ==
    /\ svc = "notification"
    /\ NotifInit
    /\ appStore = [id \in AppIds |-> <<>>]
    /\ appCache = [id \in AppIds |-> <<>>]
    /\ petStore = [id \in PetIds |-> <<>>]
    /\ petCache = [id \in PetIds |-> <<>>]
    /\ now = 3
    /\ ops = 0
    /\ pc = [p \in Procs |-> "idle"]
    /\ req = [p \in Procs |-> NoReq]
    /\ loc = [p \in Procs |-> NoLoc]
    /\ calls = [p \in Procs |-> <<>>]
    /\ resp = [p \in Procs |-> NoResp]
    /\ storeVer = [id \in Ids |-> 0]
    /\ cacheVer = [id \in Ids |-> 0]
    /\ ackedVer = [id \in Ids |-> 0]
    /\ warm = [id \in Ids |-> <<>>]
    /\ seq = <<>>

ConsumerNext ==
    \/ Deliver
    \/ \E s \in SubjectSet : Dispatch(s)
    \/ \E s \in SubjectSet : WgAdd(s)
    \/ \E s \in SubjectSet : SelectAndDecode(s)
    \/ \E s \in SubjectSet : GetUserDetails(s)
    \/ \E s \in SubjectSet : GetPetDetails(s)
    \/ \E s \in SubjectSet : SendEmail(s)
    \/ CloseStopChan
    \/ Unsubscribe
    \/ Drain
    \/ DrainCompletes
    \/ WaitDone
    \/ WaitTimeout

ConsumerSpec == ConsumerInit /\ [][ConsumerNext]_vars

-----------------------------------------------------------------------------
(* Properties.  A call that has ended stands at "return" with its request, the
   collaborator calls it made and its reply, until the caller takes the reply. *)

OpCreate == "CreateAdoptionApplication"
OpUpdateStatus == "UpdateAdoptionApplicationStatus"
PublishCreated == "publisher.PublishAdoptionApplicationCreated"
PublishStatusUpdated == "publisher.PublishAdoptionApplicationStatusUpdated"

Returned(p, op) == pc[p] = "return" /\ req[p].op = op
Ok(p) == resp[p].err = NoError
CallsTo(p, fns) == {i \in DOMAIN calls[p] : calls[p][i].fn \in fns}
PublishCalls(p) == CallsTo(p, {PublishCreated, PublishStatusUpdated})
RepoCalls(p) == {i \in DOMAIN calls[p] :
                    calls[p][i].fn \in {"repo.GetAdoptionApplicationByID", "repo.GetPetByID"}}

\* C1: a CreateAdoptionApplication or UpdateAdoptionApplicationStatus that returns
\* success has made exactly one call to the publisher, the one of its own event,
\* with the id of the application it created or updated, whether that call
\* succeeded or failed.
C1_ExactlyOnePublish ==
    \A p \in Procs :
        /\ pc[p] = "return"
        /\ req[p].op \in {OpCreate, OpUpdateStatus}
        /\ Ok(p)
        => /\ Cardinality(PublishCalls(p)) = 1
           /\ \A i \in PublishCalls(p) :
                 /\ calls[p][i].fn = IF req[p].op = OpCreate THEN PublishCreated
                                     ELSE PublishStatusUpdated
                 /\ calls[p][i].id = resp[p].app[1].ID
                 /\ calls[p][i].id \in AppIds
                 /\ req[p].op = OpUpdateStatus => calls[p][i].id = req[p].id
                 /\ req[p].op = OpCreate =>
                        \E j \in 1..(i - 1) : /\ calls[p][j].fn = "repo.CreateAdoptionApplication"
                                              /\ calls[p][j].res = "ok"
                                              /\ calls[p][j].id = calls[p][i].id

\* an update has returned success although its one publish call failed
C1_Witness ==
    \E p \in Procs :
        /\ Returned(p, OpUpdateStatus)
        /\ Ok(p)
        /\ \E i \in PublishCalls(p) : calls[p][i].res = "err"

\* C2: an UpdateAdoptionApplicationStatus that has committed its status mutation to
\* the store has, when it returns, deleted (or tried to delete) the cache entry of
\* the id and made one publish attempt of the status-updated event, whatever the
\* repository's steps after the write did.
C2_CommitThenInvalidateAndPublish ==
    \A p \in Procs :
        Returned(p, OpUpdateStatus) /\ loc[p].committed
        => /\ \E i \in CallsTo(p, {"cache.DeleteAdoptionApplication"}) :
                 calls[p][i].id = req[p].id
           /\ Cardinality(CallsTo(p, {PublishStatusUpdated})) = 1

\* C3: a get that begins after an update or a delete of its id has returned success
\* returns the value of that write or of a later one (or the value the store holds
\* now), or not-found: never an older value.  This is the least the claim asks;
\* it asks the same of every get that is answered after the write returned.
C3_NoStaleGet ==
    \A p \in Procs :
        /\ pc[p] = "return"
        /\ req[p].op \in GetOps
        /\ Ok(p)
        => \/ loc[p].ver >= loc[p].acked
           \/ /\ req[p].op = "GetAdoptionApplicationByID"
              /\ appStore[req[p].id] # <<>>
              /\ resp[p].app = <<BsonUnmarshal(appStore[req[p].id][1])>>
           \/ /\ req[p].op = "GetPetByID"
              /\ petStore[req[p].id] # <<>>
              /\ resp[p].app = <<PetBsonUnmarshal(petStore[req[p].id][1])>>

WriteOps == {OpUpdateStatus, "UpdatePet", "UpdatePetAdoptionStatus", "DeletePet"}
StoreWrites == {"repo.UpdateOne", "repo.UpdatePet", "repo.DeletePet"}
CacheDeletes == {"cache.DeleteAdoptionApplication", "cache.DeletePet"}
CacheCalls == CacheDeletes \cup {"cache.SetAdoptionApplication", "cache.SetPet",
                                 "cache.GetAdoptionApplication", "cache.GetPet"}
HasCommitted(p) ==
    \E j \in CallsTo(p, StoreWrites) : calls[p][j].res = "ok" /\ calls[p][j].id = req[p].id
CacheEntry(id) == IF id \in AppIds THEN appCache[id] ELSE petCache[id]

\* a step of a write operation that touches the cache: it changes an entry or
\* makes a call to the cache
TouchesCache(p) ==
    /\ pc'[p] # pc[p]
    /\ req[p].op \in WriteOps
    /\ \/ appCache' # appCache
       \/ petCache' # petCache
       \/ /\ Len(calls'[p]) > Len(calls[p])
          /\ calls'[p][Len(calls'[p])].fn \in CacheCalls

\* C4: a write operation touches the cache only in a step that follows the commit
\* of its own store write, and then only by a delete of the entry of its id: it
\* does not touch the cache before its store write, nor when that write failed.
C4_InvalidateOnlyAfterCommit ==
    [][\A p \in Procs :
          TouchesCache(p)
          => /\ HasCommitted(p)
             /\ Len(calls'[p]) = Len(calls[p]) + 1
             /\ calls'[p][Len(calls'[p])].fn \in CacheDeletes
             /\ calls'[p][Len(calls'[p])].id = req[p].id
             /\ \A id \in AppIds : id # req[p].id => appCache'[id] = appCache[id]
             /\ \A id \in PetIds : id # req[p].id => petCache'[id] = petCache[id]
             /\ \A id \in AppIds : appCache'[id] \in {appCache[id], <<>>}
             /\ \A id \in PetIds : petCache'[id] \in {petCache[id], <<>>}]_vars

\* the store write of a write operation has failed while the cache holds an entry
\* for the id, and the entry is still there when the operation returns
C4_Witness ==
    \E p \in Procs :
        /\ pc[p] = "return"
        /\ req[p].op \in WriteOps
        /\ req[p].id \in Ids
        /\ \E j \in CallsTo(p, StoreWrites) : calls[p][j].res # "ok"
        /\ CacheEntry(req[p].id) # <<>>

\* C5: the get that follows at once a successful UpdateAdoptionApplicationStatus(id,
\* S, notes) returns an application of status S whose updated_at is greater than
\* the updated_at the application had before the update.
C5_GetAfterUpdate ==
    \A p \in Procs :
        /\ Returned(p, "GetAdoptionApplicationByID")
        /\ Ok(p)
        /\ seq # <<>>
        /\ seq[1].getter = p
        => /\ resp[p].app[1].Status = seq[1].status
           /\ resp[p].app[1].UpdatedAt > seq[1].before

\* a get for an id whose last cold get (with no write since) had returned when it began
NextGet(p) ==
    /\ pc[p] = "return"
    /\ req[p].op \in GetOps
    /\ loc[p].warm0 # <<>>
    /\ storeVer[req[p].id] = loc[p].warm0[1].ver

Hit(p) == calls[p] # <<>> /\ calls[p][1].res = "hit"

\* a get that hits the cache performs no store access
HitReadsNoStore ==
    \A p \in Procs :
        pc[p] = "return" /\ req[p].op \in GetOps /\ Hit(p) => Len(calls[p]) = 1 /\ Ok(p)

C7_CreatedPendingReview ==
    [][\A p \in Procs :
          /\ pc[p] = "create.insert" /\ pc'[p] = "create.publish"
             => LET app == loc'[p].app[1]
                    doc == appStore'[app.ID][1]
                IN  /\ appStore[app.ID] = <<>>
                    /\ doc = BsonMarshal(app)
                    /\ doc.status = StatusAppPendingReview
                    /\ doc.created_at = doc.updated_at
                    /\ doc.user_id = req[p].user /\ doc.user_id # ""
                    /\ doc.pet_id = req[p].pet /\ doc.pet_id # ""
          /\ pc[p] = "create.publish" /\ pc'[p] = "return"
             => /\ resp'[p].err = NoError
                /\ resp'[p].app = loc[p].app
                /\ resp'[p].app[1].Status = StatusAppPendingReview
                /\ resp'[p].app[1].CreatedAt = resp'[p].app[1].UpdatedAt]_vars

\* a create has returned an application whose times the store holds cut to the millisecond
C7_Witness ==
    \E p \in Procs :
        /\ Returned(p, OpCreate)
        /\ Ok(p)
        /\ appStore[resp[p].app[1].ID] # <<>>
        /\ appStore[resp[p].app[1].ID][1].created_at # resp[p].app[1].CreatedAt

\* C8: an UpdateAdoptionApplicationStatus for an id the store does not hold (its
\* UpdateOne matched nothing) is answered with gRPC code NotFound, and no event is
\* published for it.
C8_MissingIdIsNotFound ==
    \A p \in Procs :
        /\ Returned(p, OpUpdateStatus)
        /\ \E i \in CallsTo(p, {"repo.UpdateOne"}) : calls[p][i].res = "nomatch"
        => /\ resp[p].code = "NotFound"
           /\ PublishCalls(p) = {}

\* C9: UpdateAdoptionApplicationStatus succeeds only for the new statuses
\* PENDING_REVIEW, APPROVED, REJECTED and CANCELLED_BY_USER; a request for
\* UNSPECIFIED is rejected before any call to the repository, and no stored
\* application has status UNSPECIFIED.
C9_UnspecifiedRejected ==
    /\ \A p \in Procs :
          Returned(p, OpUpdateStatus)
          => /\ Ok(p) => req[p].status \in FourStatuses
             /\ req[p].status = StatusAppUnspecified => ~Ok(p) /\ calls[p] = <<>>
    /\ \A id \in AppIds :
          appStore[id] # <<>> => appStore[id][1].status # StatusAppUnspecified

\* C10: a CreateAdoptionApplication or UpdateAdoptionApplicationStatus whose publish
\* call failed returns the created or updated application with no error, and the
\* store keeps the mutation: it holds the application, and with no later write it
\* holds what the call wrote.
C10_PublishFailureIsNotFatal ==
    \A p \in Procs :
        /\ pc[p] = "return"
        /\ req[p].op \in {OpCreate, OpUpdateStatus}
        /\ \E i \in PublishCalls(p) : calls[p][i].res = "err"
        => /\ Ok(p)
           /\ resp[p].app = loc[p].app
           /\ resp[p].app # <<>>
           /\ LET id == resp[p].app[1].ID
              IN  /\ appStore[id] # <<>>
                  /\ storeVer[id] = loc[p].ver =>
                        IF req[p].op = OpCreate
                        THEN appStore[id] = <<BsonMarshal(resp[p].app[1])>>
                        ELSE /\ appStore[id][1].status = req[p].status
                             /\ appStore[id][1].review_notes = req[p].notes
                             /\ resp[p].app = <<BsonUnmarshal(appStore[id][1])>>

\* a create has returned although its publish call failed
C10_Witness ==
    \E p \in Procs :
        /\ Returned(p, OpCreate)
        /\ \E i \in PublishCalls(p) : calls[p][i].res = "err"

\* the calls of a get to the cache's read, to the store's read and to the cache's write
CacheGets == {"cache.GetAdoptionApplication", "cache.GetPet"}
RepoGets == {"repo.GetAdoptionApplicationByID", "repo.GetPetByID"}
CacheSets == {"cache.SetAdoptionApplication", "cache.SetPet"}

\* what the store holds for id
StoreDoc(id) == IF id \in AppIds THEN appStore[id] ELSE petStore[id]

\* the entity the store holds for id, as the repository decodes it
StoreEntity(id) ==
    IF id \in AppIds THEN BsonUnmarshal(appStore[id][1]) ELSE PetBsonUnmarshal(petStore[id][1])

\* a get has returned whose cache read failed or missed
ColdGet(p) ==
    /\ pc[p] = "return"
    /\ req[p].op \in GetOps
    /\ calls[p] # <<>>
    /\ calls[p][1].fn \in CacheGets
    /\ calls[p][1].res \in {"miss", "err"}

\* C11: a GetAdoptionApplicationByID or GetPetByID whose cache read fails or misses
\* reads the store; when that read succeeds it tries the cache write and returns
\* the entity it read from the store with no error, whether the cache write
\* succeeds or fails.
C11_CacheFailuresHidden ==
    \A p \in Procs :
        ColdGet(p)
        => /\ Len(calls[p]) >= 2
           /\ calls[p][2].fn \in RepoGets
           /\ calls[p][2].id = req[p].id
           /\ calls[p][2].res = "ok"
              => /\ Len(calls[p]) = 3
                 /\ calls[p][3].fn \in CacheSets
                 /\ calls[p][3].res \in {"ok", "err"}
                 /\ Ok(p)
                 /\ resp[p].app = loc[p].app
                 /\ resp[p].app # <<>>
                 /\ resp[p].app[1].ID = req[p].id
                 /\ storeVer[req[p].id] = loc[p].ver
                    => resp[p].app = <<StoreEntity(req[p].id)>>

\* a get whose cache read failed and whose cache write failed has returned the
\* store's entity
C11_Witness ==
    \E p \in Procs :
        /\ ColdGet(p)
        /\ calls[p][1].res = "err"
        /\ Len(calls[p]) = 3
        /\ calls[p][3].res = "err"
        /\ Ok(p)

\* the entity e of id as the store gives it back once written: its times cut to
\* the millisecond
AsStored(id, e) ==
    IF id \in AppIds THEN BsonUnmarshal(BsonMarshal(e)) ELSE PetBsonUnmarshal(PetBsonMarshal(e))

\* a write operation has returned whose cache delete failed
FailedInvalidate(p) ==
    /\ pc[p] = "return"
    /\ req[p].op \in WriteOps
    /\ \E i \in CallsTo(p, CacheDeletes) : calls[p][i].res = "err"

\* client p's step is a cache delete that fails
FailingCacheDelete(p) ==
    /\ Len(calls'[p]) = Len(calls[p]) + 1
    /\ calls'[p][Len(calls'[p])].fn \in CacheDeletes
    /\ calls'[p][Len(calls'[p])].res = "err"

\* C12: a write operation whose cache delete fails has committed its store write
\* and returns success; the store keeps the new value (with no later write it
\* holds what the operation wrote: the entity returned, as the store encodes it,
\* or nothing after DeletePet); and the failed delete changes neither store nor cache, so that
\* the entry the cache held is still there to be served.
C12_FailedInvalidateKeepsWrite ==
    /\ [](\A p \in Procs :
             FailedInvalidate(p)
             => /\ Ok(p)
                /\ loc[p].committed
                /\ storeVer[req[p].id] = loc[p].ver
                   => IF req[p].op = "DeletePet"
                      THEN StoreDoc(req[p].id) = <<>>
                      ELSE /\ resp[p].app # <<>>
                           /\ StoreDoc(req[p].id) # <<>>
                           /\ StoreEntity(req[p].id) = AsStored(req[p].id, resp[p].app[1]))
    /\ [][\A p \in Procs :
             FailingCacheDelete(p)
             => UNCHANGED <<appStore, petStore, appCache, petCache, storeVer>>]_vars

\* a write operation has returned success although its cache delete failed, and
\* the cache still holds the entry of an earlier value
C12_Witness ==
    \E p \in Procs :
        /\ FailedInvalidate(p)
        /\ Ok(p)
        /\ CacheEntry(req[p].id) # <<>>
        /\ cacheVer[req[p].id] < storeVer[req[p].id]

\* C13: a CreateAdoptionApplication whose user id or pet id is empty returns the
\* error "user ID and pet ID are required" and no application, having made no
\* call to the repository, the cache or the publisher; so no stored application
\* has an empty user id or pet id.
C13_EmptyIdsRejected ==
    /\ \A p \in Procs :
          /\ Returned(p, OpCreate)
          /\ req[p].user = "" \/ req[p].pet = ""
          => /\ ~Ok(p)
             /\ ErrorString(resp[p].err) = "user ID and pet ID are required"
             /\ resp[p].app = <<>>
             /\ calls[p] = <<>>
    /\ \A p \in Procs :
          req[p].op = OpCreate /\ (req[p].user = "" \/ req[p].pet = "")
          => pc[p] = "return"
    /\ \A id \in AppIds :
          appStore[id] # <<>> => appStore[id][1].user_id # "" /\ appStore[id][1].pet_id # ""

\* a create with a user id and an empty pet id has been rejected while the store
\* already holds an application
C13_Witness ==
    \E p \in Procs :
        /\ Returned(p, OpCreate)
        /\ req[p].user # ""
        /\ req[p].pet = ""
        /\ ~Ok(p)
        /\ \E id \in AppIds : appStore[id] # <<>>

-----------------------------------------------------------------------------
(* Properties of the notification service.  The history msgs keeps, for every
   message received, how often the event handler was called for it, the calls
   the handler made and how the callback ended. *)

MsgNums == 1..Len(msgs)
\* the callback has returned for message n
Finished(n) == msgs[n].result # ""
\* message n is held for its subscription, or the callback runs for it
Queued(n) == \E s \in SubjectSet : \E i \in DOMAIN pending[s] : pending[s][i] = n
Running(n) == \E s \in SubjectSet : hmsg[s] = n
NCallsTo(n, fns) == {i \in DOMAIN msgs[n].calls : msgs[n].calls[i].fn \in fns}
Emails(n) == NCallsTo(n, {"email.SendEmail"})

\* C14: the event handler is called at most once for a message; once it has
\* returned an error the message is neither held for delivery again nor handed
\* to the handler again, and no fetch made for it is made a second time.
C14_HandledAtMostOnce ==
    \A n \in MsgNums :
        /\ msgs[n].invoked <= 1
        /\ Cardinality(NCallsTo(n, {"user.GetUser"})) <= 1
        /\ Cardinality(NCallsTo(n, {"pet.GetPet"})) <= 1
        /\ Cardinality(Emails(n)) <= 1
        /\ Finished(n) => ~Queued(n) /\ ~Running(n)
        /\ Queued(n) \/ Running(n) => Cardinality({s \in SubjectSet : hmsg[s] = n}) <= 1

\* the handler has failed for a message (its email could not be sent), and the
\* callback of the subscription is at work on the message that came after it
C14_Witness ==
    \E n \in MsgNums, m \in MsgNums :
        /\ n < m
        /\ msgs[n].subject = msgs[m].subject
        /\ msgs[n].result = "err"
        /\ msgs[n].invoked = 1
        /\ \E i \in Emails(n) : msgs[n].calls[i].res = "err"
        /\ Running(m)
        /\ msgs[m].invoked = 1

\* the payload of message n is not the JSON of an event
Undecodable(n) == msgs[n].data.syntax # "json" \/ msgs[n].data = BadTimePayload

\* a step in which the callback of subject s drops its message
Drops(s) == hmsg[s] # 0 /\ msgs[hmsg[s]].result = "" /\ msgs'[hmsg[s]].result = "dropped"

\* C15: for a message whose payload does not decode the event handler is never
\* called and nothing is fetched or sent; the callback drops it and returns as
\* any callback returns, leaving the subscription, the messages that wait and the
\* connection as they are, so that the next message is taken up.
C15_UndecodableDropped ==
    /\ [](\A n \in MsgNums :
             Undecodable(n) => /\ msgs[n].invoked = 0
                               /\ msgs[n].calls = <<>>
                               /\ msgs[n].result \in {"", "dropped", "stopped"})
    /\ [][\A s \in SubjectSet :
             Drops(s) => /\ Undecodable(hmsg[s])
                         /\ hpc'[s] = "idle"
                         /\ shutdownWg' = shutdownWg - 1
                         /\ UNCHANGED <<subs, pending, conn, stopChan, cpc>>]_vars

\* a message that does not decode has been dropped, and the message received
\* after it on the same subject has been decoded and handled: its email is sent
C15_Witness ==
    \E n \in MsgNums, m \in MsgNums :
        /\ n < m
        /\ msgs[n].subject = msgs[m].subject
        /\ Undecodable(n)
        /\ msgs[n].result = "dropped"
        /\ msgs[m].invoked = 1
        /\ msgs[m].result = "ok"

\* the replies the handler has had for message n from the user and the pet service
UserReply(n) == {msgs[n].calls[i].res : i \in NCallsTo(n, {"user.GetUser"})}
PetReply(n) == {msgs[n].calls[i].res : i \in NCallsTo(n, {"pet.GetPet"})}
\* the user fetch failed, or gave no user or a user without email; likewise the pet fetch
UserFetchFailed(n) == UserReply(n) \cap {"err", "nil", "noemail"} # {}
PetFetchFailed(n) == PetReply(n) \cap {"err", "nil", "noname"} # {}

\* C16: when the user fetch fails or gives no email, or the pet fetch fails or
\* gives no name, no email is sent for the message and the handler returns an
\* error; when the user fetch is what failed, the pet service is not called.
C16_FetchFailureSendsNothing ==
    \A n \in MsgNums :
        /\ UserFetchFailed(n) \/ PetFetchFailed(n)
           => /\ Emails(n) = {}
              /\ msgs[n].result = "err"
              /\ ~Running(n)
        /\ UserFetchFailed(n) => PetReply(n) = {}
        /\ Emails(n) # {} => UserReply(n) = {"ok"} /\ PetReply(n) = {"ok"}

\* the handler has returned an error for a message whose user was fetched and
\* whose pet has no name
C16_Witness ==
    \E n \in MsgNums :
        /\ UserReply(n) = {"ok"}
        /\ PetReply(n) = {"noname"}
        /\ msgs[n].result = "err"
        /\ Emails(n) = {}

\* whether the pieces of a body include the piece
Contains(body, piece) == \E i \in DOMAIN body : body[i] = piece

\* the handler has returned for message n after both fetches gave what it needs
BothFetched(n) == Finished(n) /\ UserReply(n) = {"ok"} /\ PetReply(n) = {"ok"}

\* C17: when both fetches succeed with an email and a pet name, the handler makes
\* one call of SendEmail, for one recipient, the email of the fetched user; the
\* body of a status-updated email has the new status, has the review notes as
\* they came exactly when they are not empty, and has one more paragraph for
\* APPROVED, another one for REJECTED and none for any other status.
C17_OneEmailRendered ==
    \A n \in MsgNums :
        BothFetched(n)
        => /\ Cardinality(Emails(n)) = 1
           /\ \A i \in Emails(n) :
                 LET mail == msgs[n].calls[i]
                     obj == msgs[n].data.obj
                 IN  /\ mail.to = <<UserEmail>>
                     /\ msgs[n].subject = SubjectStatusUpdated
                        => /\ Contains(mail.body, obj.new_status)
                           /\ obj.review_notes # ""
                              <=> /\ Contains(mail.body, "<p>Reviewer's Notes: ")
                                  /\ Contains(mail.body, obj.review_notes)
                           /\ Contains(mail.body, ApprovedParagraph)
                              <=> obj.new_status = "APPROVED"
                           /\ Contains(mail.body, RejectedParagraph)
                              <=> obj.new_status = "REJECTED"
                           /\ ApprovedParagraph # RejectedParagraph
                           /\ Len(mail.body) = 15 + (IF obj.review_notes # "" THEN 3 ELSE 0)
                                                 + (IF obj.new_status \in {"APPROVED", "REJECTED"}
                                                    THEN 1 ELSE 0)

\* the email for a rejection with review notes has been sent
C17_Witness ==
    \E n \in MsgNums :
        /\ BothFetched(n)
        /\ msgs[n].subject = SubjectStatusUpdated
        /\ msgs[n].data.obj.new_status = "REJECTED"
        /\ msgs[n].data.obj.review_notes # ""
        /\ msgs[n].result = "ok"

\* the wait of Close for the callbacks has ended
WaitEnded == waitEnd \in {"done", "timeout"}

\* C18: Close has unsubscribed from every subject before it waits, and the
\* connection is drained or closed only when the wait for the callbacks has
\* ended, by their return or by the timeout.
C18_ReleaseAfterWait ==
    /\ cpc \in {"wait", "returned"} => \A s \in SubjectSet : ~subs[s]
    /\ conn # "open" => WaitEnded

\* the callback of subject s has been called for a message and has not returned
InFlight(s) == hpc[s] # "idle"

\* C19: Close returns only when its wait has ended, by the return of the
\* callbacks or by the timeout; when the wait ended because the callbacks were
\* done, every callback that was in flight has returned.
C19_CloseWaitsOrTimesOut ==
    /\ cpc = "returned" => WaitEnded
    /\ waitEnd = "done" => \A s \in SubjectSet : ~InFlight(s)

\* C20: every message has a unit of work of its own: a message that waits on a
\* live subscription can have its callback started whatever the callback of an
\* earlier message of the subject is doing.
C20_CallbackPerMessage ==
    \A s \in SubjectSet : pending[s] # <<>> /\ subs[s] => ENABLED Dispatch(s)

\* the callback of subject s is started for message n
DispatchMsg(s, n) == Dispatch(s) /\ hmsg'[s] = n

\* messages m and n were received on the status-updated subject, m before n
StatusUpdatedInOrder(m, n) ==
    /\ m < n
    /\ msgs[m].subject = SubjectStatusUpdated
    /\ msgs[n].subject = SubjectStatusUpdated

-----------------------------------------------------------------------------
(* Further properties of the adoption and pet services *)

\* the labels at which a get is about to write the cache
SetLabels == {"get.set", "getpet.set"}

\* the cache entry that holds entity e of id
EntryOf(id, e) == IF id \in AppIds THEN <<JsonMarshal(e)>> ELSE <<PetJsonMarshal(e)>>

\* client p is a get for id that has just read the store and not yet written the cache
GetAboutToSet(p, id) ==
    /\ pc[p] \in SetLabels
    /\ req[p].op \in GetOps
    /\ req[p].id = id
    /\ calls[p][Len(calls[p])].fn \in RepoGets
    /\ calls[p][Len(calls[p])].res = "ok"

\* C22: the cache only mirrors the store. A step that puts a value into the cache
\* entry of an id is the cache write of a get for that id whose previous call was
\* its successful store read, and the value written is the entity that read
\* returned: the get holds the decoded store document from the read on and does
\* not change it. No other step changes an entry except to remove it.
C22_CacheMirrorsStore ==
    [][\A id \in AppIds \cup PetIds :
          /\ CacheEntry(id)' # CacheEntry(id) /\ CacheEntry(id)' # <<>>
             => \E p \in Procs :
                   /\ GetAboutToSet(p, id)
                   /\ pc'[p] = "return"
                   /\ calls'[p][Len(calls'[p])].fn \in CacheSets
                   /\ CacheEntry(id)' = EntryOf(id, loc[p].app[1])
          /\ \A p \in Procs :
                /\ ~GetAboutToSet(p, id) /\ GetAboutToSet(p, id)'
                   => /\ StoreDoc(id) # <<>>
                      /\ loc'[p].app = <<StoreEntity(id)>>
                      /\ UNCHANGED <<appStore, petStore>>
                /\ GetAboutToSet(p, id) /\ GetAboutToSet(p, id)'
                   => loc'[p].app = loc[p].app]_vars

\* a get has written the entity it read from the store to the cache, and the
\* entry holds it
C22_Witness ==
    \E p \in Procs :
        /\ pc[p] = "return"
        /\ req[p].op \in GetOps
        /\ calls[p] # <<>>
        /\ calls[p][Len(calls[p])].fn \in CacheSets
        /\ calls[p][Len(calls[p])].res = "ok"
        /\ resp[p].app # <<>>
        /\ CacheEntry(req[p].id) = EntryOf(req[p].id, resp[p].app[1])

\* the error of the repository when DeleteOne deleted nothing
ErrPetNotFoundForDeletion == ErrorsNew("pet not found for deletion", "mongodb_repository")

\* a DeletePet has returned whose DeleteOne answered res
DeletePetReturned(p, res) ==
    /\ Returned(p, "DeletePet")
    /\ \E i \in CallsTo(p, {"repo.DeletePet"}) : calls[p][i].res = res

\* C23: a DeletePet whose DeleteOne deleted nothing fails with the not-found
\* error; a DeletePet that returns, whether the store deleted the pet or had
\* nothing to delete, leaves no cache entry for the id, whatever the cache held
\* before; and a GetPetByID that begins after a DeletePet of its id has returned
\* success is not answered from the cache.
C23_DeleteInvalidates ==
    \A p \in Procs :
        /\ DeletePetReturned(p, "nomatch")
           => ErrorsIs(resp[p].err, ErrPetNotFoundForDeletion)
        /\ DeletePetReturned(p, "nomatch") \/ DeletePetReturned(p, "ok")
           => petCache[req[p].id] = <<>>
        /\ /\ Returned(p, "GetPetByID")
           /\ req[p].id \in PetIds
           /\ petStore[req[p].id] = <<>>
           /\ loc[p].acked > 0
           /\ loc[p].acked = storeVer[req[p].id]
           => calls[p][1].res # "hit"

\* the store write of client p's UpdateAdoptionApplicationStatus commits the
\* requested status
CommitsStatus(p) ==
    /\ RepoUpdateAdoptionApplicationStatus(p)
    /\ appStore'[req[p].id] # <<>>
    /\ appStore'[req[p].id][1].status = req[p].status
    /\ pc'[p] = "update.read"

\* the answers of collaborator calls that are failures of the store
StoreFailures == {"err", "nomatch", "notfound"}

\* C24: UpdateAdoptionApplicationStatus does not look at the application's
\* current status. A request for one of the four statuses on a non-empty id always
\* reaches the repository; whatever status the stored application has, its store
\* write can commit the requested status; and an update that fails after that
\* fails because a call to the store failed, never because of the status held.
C24_NoTransitionCheck ==
    \A p \in Procs :
        /\ /\ Returned(p, OpUpdateStatus)
           /\ req[p].status \in FourStatuses
           /\ req[p].id # ""
           => /\ calls[p] # <<>>
              /\ ~Ok(p) => \E i \in DOMAIN calls[p] :
                               /\ calls[p][i].fn \in {"repo.UpdateOne", "repo.GetAdoptionApplicationByID"}
                               /\ calls[p][i].res \in StoreFailures
        /\ /\ At(p, "update.write")
           /\ appStore[req[p].id] # <<>>
           => ENABLED CommitsStatus(p)

\* an update of a REJECTED application to APPROVED has returned success
C24_Witness ==
    \E p \in Procs :
        /\ Returned(p, OpUpdateStatus)
        /\ Ok(p)
        /\ loc[p].pre # <<>>
        /\ loc[p].pre[1].status = StatusAppRejected
        /\ req[p].status = StatusAppApproved
        /\ resp[p].app[1].Status = StatusAppApproved

\* C25: the application a successful UpdateAdoptionApplicationStatus(id, S, notes)
\* returns, and the status-updated event it publishes, carry status S and review
\* notes equal to notes, also when other updates of the same id run at the same time.
C25_ReturnsOwnUpdate ==
    \A p \in Procs :
        /\ Returned(p, OpUpdateStatus)
        /\ Ok(p)
        => /\ resp[p].app[1].Status = req[p].status
           /\ resp[p].app[1].ReviewNotes = req[p].notes
           /\ PublishCalls(p) # {}
           /\ StatusUpdatedEventData(loc[p].app[1]).new_status = req[p].status
           /\ StatusUpdatedEventData(loc[p].app[1]).review_notes = req[p].notes

\* client p's step is the store write of its UpdatePet, and the write is committed
UpdatePetCommits(p) == pc[p] = "updatepet.write" /\ pc'[p] = "updatepet.invalidate"

\* C26: UpdatePet changes only the fields its request carries. Its store write
\* leaves every other field of the pet, adoption_status and adopted_by_user_id
\* among them, as the store holds it at the moment of the write, also when
\* another write of the id was committed after UpdatePet read the pet.
C26_UpdatePetKeepsOtherFields ==
    [][\A p \in Procs :
          UpdatePetCommits(p)
          => LET old == PetBsonUnmarshal(petStore[req[p].id][1])
                 new == PetBsonUnmarshal(petStore'[req[p].id][1])
             IN  /\ new.AdoptionStatus = old.AdoptionStatus
                 /\ new.AdoptedByUserID = old.AdoptedByUserID
                 /\ new.Species = old.Species
                 /\ new.Age = old.Age
                 /\ new.CreatedAt = old.CreatedAt
                 /\ req[p].name = <<>> => new.Name = old.Name]_vars

-----------------------------------------------------------------------------
(* Further properties of the notification service *)

\* C27: once Close has closed stopChan the channel stays closed, and a callback
\* that starts after that returns at its select: its message is neither decoded
\* nor handed to the event handler, no call is made for it, and the callback's
\* step at the select is its return.
C27_StoppedCallbackDoesNothing ==
    /\ [](\A n \in MsgNums :
             msgs[n].late
             => /\ stopChan
                /\ msgs[n].invoked = 0
                /\ msgs[n].calls = <<>>
                /\ msgs[n].result \in {"", "stopped"}
                /\ \A s \in SubjectSet : hmsg[s] = n => hpc[s] \in {"add", "select"})
    /\ [][\A s \in SubjectSet :
             /\ hpc[s] = "select"
             /\ msgs[hmsg[s]].late
             /\ hpc'[s] # "select"
             => /\ hpc'[s] = "idle"
                /\ msgs'[hmsg[s]].result = "stopped"
                /\ hloc'[s] = NoHLoc]_vars

\* a callback that started after stopChan was closed has returned, for a message
\* that the event handler would have accepted
C27_Witness ==
    \E n \in MsgNums :
        /\ msgs[n].late
        /\ ~Undecodable(n)
        /\ UnmarshalEvent(msgs[n].subject, msgs[n].data) # NoEvent
        /\ msgs[n].result = "stopped"

\* the subjects the adoption service publishes created and status-updated events on
CreatedEventsSubject == PublisherSubject(PublishCreated)
StatusEventsSubject == PublisherSubject(PublishStatusUpdated)

\* C28: the publisher uses one subject for created events and another for
\* status-updated events; the consumer's subscriptions are exactly these two; and
\* a message on either subject is decoded as the event of that subject and
\* handled by the handler of that event, which shows in the subject line of the
\* email it sends.
C28_SubjectsAndRouting ==
    /\ CreatedEventsSubject # StatusEventsSubject
    /\ DOMAIN subs = {CreatedEventsSubject, StatusEventsSubject}
    /\ DOMAIN pending = DOMAIN subs
    /\ \A n \in MsgNums : msgs[n].subject \in DOMAIN subs
    /\ \A s \in DOMAIN subs :
          hmsg[s] # 0 /\ hloc[s].event # NoEvent
          => /\ msgs[hmsg[s]].subject = s
             /\ hloc[s].event = IF s = CreatedEventsSubject
                                THEN UnmarshalCreatedEvent(msgs[hmsg[s]].data)
                                ELSE UnmarshalStatusUpdatedEvent(msgs[hmsg[s]].data)
    /\ \A n \in MsgNums : \A i \in Emails(n) :
          /\ msgs[n].subject = CreatedEventsSubject
             => msgs[n].calls[i].subject[1] = "Adoption Application Received for "
          /\ msgs[n].subject = StatusEventsSubject
             => msgs[n].calls[i].subject[1] = "Update on Your Adoption Application for "

\* an email has been sent for a created event and another for a status-updated
\* event, each received on the subject the publisher uses for it
C28_Witness ==
    \E m \in MsgNums, n \in MsgNums :
        /\ msgs[m].subject = CreatedEventsSubject
        /\ StringField(msgs[m].data.obj, "event_type") = "AdoptionApplicationCreated"
        /\ msgs[m].result = "ok"
        /\ Emails(m) # {}
        /\ msgs[n].subject = StatusEventsSubject
        /\ StringField(msgs[n].data.obj, "event_type") = "AdoptionApplicationStatusUpdated"
        /\ msgs[n].result = "ok"
        /\ Emails(n) # {}

-----------------------------------------------------------------------------
(* Further properties of the pet service and of the gets *)

\* C29: every stored pet has an adopter exactly when its adoption status is
\* ADOPTED, whatever CreatePet, UpdatePet and UpdatePetAdoptionStatus calls have
\* run and however they interleaved.
C29_AdopterIffAdopted ==
    \A id \in PetIds :
        petStore[id] # <<>>
        => (PetBsonUnmarshal(petStore[id][1]).AdoptedByUserID # ""
            <=> PetBsonUnmarshal(petStore[id][1]).AdoptionStatus = StatusAdopted)

\* an UpdatePet has written over a pet that an UpdatePetAdoptionStatus changed
\* after UpdatePet had read it
C29_Witness ==
    \E p \in Procs :
        /\ Returned(p, "UpdatePet")
        /\ Ok(p)
        /\ loc[p].committed
        /\ loc[p].pre # <<>>
        /\ PetBsonUnmarshal(loc[p].pre[1]).AdoptionStatus # resp[p].app[1].AdoptionStatus
        /\ petStore[req[p].id] # <<>>

\* a get has returned after the store answered not-found
GetNotFound(p) ==
    /\ pc[p] = "return"
    /\ req[p].op \in GetOps
    /\ calls[p] # <<>>
    /\ calls[p][Len(calls[p])].fn \in RepoGets
    /\ calls[p][Len(calls[p])].res = "notfound"

\* client p's step is the store read of its get, answered not-found
GetsNotFound(p) == ~GetNotFound(p) /\ GetNotFound(p)'

\* C30: a get whose cache read gave nothing and whose store read found nothing
\* returns the store's not-found error, and that step leaves the cache as it
\* was; the get made no cache write. So an id that the store has never held has
\* no cache entry, and the first get after its creation goes to the store.
C30_NotFoundIsNotCached ==
    /\ [](\A p \in Procs :
             GetNotFound(p)
             => /\ resp[p].err = IF req[p].op = "GetPetByID" THEN ErrPetNotFound
                                 ELSE ErrAppNotFound
                /\ resp[p].app = <<>>
                /\ CallsTo(p, CacheSets) = {}
                /\ Len(calls[p]) = 2
                /\ calls[p][1].fn \in CacheGets
                /\ calls[p][1].res \in {"miss", "err"})
    /\ [](\A id \in AppIds \cup PetIds : storeVer[id] = 0 => CacheEntry(id) = <<>>)
    /\ [][\A p \in Procs : GetsNotFound(p) => UNCHANGED <<appCache, petCache>>]_vars

\* a get for an id that neither the cache nor the store has ever held has returned
\* the not-found error
C30_Witness ==
    \E p \in Procs :
        /\ GetNotFound(p)
        /\ calls[p][1].res = "miss"
        /\ storeVer[req[p].id] = 0
        /\ CacheEntry(req[p].id) = <<>>
        /\ resp[p].err # NoError

====
